---- MODULE Spec2Model ----
(***************************************************************************)
(* Incremental index pipeline of slackbot/index_pipeline:                  *)
(*   IndexService.index  =  Scanner.scan -> BatchBuilder.build ->          *)
(*                          EmbedWorker.embed (fan-out) ->                 *)
(*                          UpsertWorker.upsert (one call per result)      *)
(* The docs directory, the Chroma collection and one index() run are the   *)
(* state.  File names and zip entry names are sequences of tokens, so that *)
(* str.endswith is a test on the last token.                               *)
(***************************************************************************)
EXTENDS Integers, Sequences, FiniteSets, TLC

VARIABLES
    disk,     \* the docs directory: file name -> stat and content
    store,    \* the rows of the Chroma collection
    run,      \* the index() call under way or last ended
    units,    \* the work units of that call and their embed and upsert calls
    runs,     \* number of index() calls started
    faults,   \* number of failed /embed requests and rejected upsert calls
    settled,  \* files a successful run handled and that were not changed since
    quiet,    \* the last index() succeeded and the directory is unchanged since
    arg, ret, \* argument and result of a function applied on its own
    worker,   \* the queueing UpsertWorker of agents/index_pipeline
    embedder, \* one EmbedWorker container and its TEI sidecar
    mentions, \* the threads of the Bot that handle file-upload mentions
    rag       \* the RAG server process of agents/ and the callers of run_rag_query

vars == <<disk, store, run, units, runs, faults, settled, quiet, arg, ret, worker, embedder, mentions, rag>>

-----------------------------------------------------------------------------
(* Bounds of the model *)

\* largest number of nodes the splitter makes of one document
MaxNodes == 3
\* largest mtime a file of the docs directory reaches
MaxMtime == 2
\* number of index() runs that are followed
MaxRuns == 3
\* number of failed /embed requests and rejected collection.upsert calls
MaxFaults == 1

\* largest batch count given to BatchBuilder when build is applied on its own
MaxW == 3
\* largest list and largest batch count given to BatchBuilder._chunk on its own
MaxItems == 100
MaxChunkW == 8

(* Program constants *)

\* rows per collection.upsert call; 5000 in chunk_store.py, scaled down
UPSERT_BATCH == 2

\* BATCH_SIZE of the sidecar, texts per /embed request, scaled down
BATCH_SIZE == 2

\* longest node list _chunk_and_embed is applied to on its own
MaxEmbedNodes == 5

\* longest content, in bytes, of the file whose fingerprint is observed twice
MaxContent == 2

\* most lines handle() of the RAG server prints for one request
MaxOutputLines == 2

\* number of flush() calls that are followed
MaxFlushes == 2

\* longest text and largest limit given to chunk_message
MaxTextLen == 5
MaxLimit == 3

\* a capacity of the hand-off queue of the UpsertWorker
HandoffBound == 2

\* consecutive failed requests after which the sidecar driver gives up, scaled
MaxTeiFailures == 2

\* EmbedWorker containers created one after another
MaxContainers == 3

\* /embed requests followed per container
MaxRequests == 6
N_WORKERS == 8
WORKERS_PER_GPU == 4

\* maxsize of queue.Queue(): 0, the queue has no capacity limit
QueueMaxsize == 0

-----------------------------------------------------------------------------
(* Names *)

ATxt == <<"a", ".txt">>
BZip == <<"b", ".zip">>

\* the file names of the docs directory, in lexicographic order
CTxt == <<"c", ".txt">>
FileNames == <<ATxt, BZip, CTxt>>

\* the files the pipeline is run on
PipelineNames == {ATxt, BZip}

\* zf.namelist() of the archive: a directory entry and two file entries
ZipNameList == << <<"d", "/">>, <<"e1">>, <<"e2">> >>

None == <<>>

Range(s) == {s[i] : i \in 1..Len(s)}

EndsWith(name, suffix) == Len(name) > 0 /\ name[Len(name)] = suffix

RECURSIVE SumSeq(_)
SumSeq(s) == IF s = <<>> THEN 0 ELSE s[1] + SumSeq(Tail(s))

RECURSIVE Flatten(_)
Flatten(ss) == IF ss = <<>> THEN <<>> ELSE ss[1] \o Flatten(Tail(ss))

Min(a, b) == IF a < b THEN a ELSE b

\* math.ceil(a / b) for a >= 0, b >= 1
Ceil(a, b) == (a + b - 1) \div b

\* all orders in which the elements of a finite set can be listed
RECURSIVE Orderings(_)
Orderings(S) ==
    IF S = {} THEN {<<>>}
    ELSE UNION {{<<x>> \o t : t \in Orderings(S \ {x})} : x \in S}

-----------------------------------------------------------------------------
(* Fingerprint: scanner.py _fingerprint and file_parser.py _fingerprint.   *)
(* f"{st_mtime_ns}:{st_size}" is one-to-one on pairs of integers.          *)

Fingerprint(st) == <<st.mtime, st.size>>

ScannerFingerprint(d, name) == Fingerprint(d[name])

ParserFingerprint(d, name) == Fingerprint(d[name])

-----------------------------------------------------------------------------
(* ChunkStore *)

\* the metadata dict of a chunk
Metadata(c) == [source |-> c.source, fingerprint |-> c.fingerprint, filename |-> c.filename]

\* a transposition that gives every row the text of the first row
UnzipOneText(batch) ==
    [ids |-> [i \in 1..Len(batch) |-> batch[i].id],
     embeddings |-> [i \in 1..Len(batch) |-> batch[i].vector],
     documents |-> [i \in 1..Len(batch) |-> batch[1].text],
     metadatas |-> [i \in 1..Len(batch) |-> Metadata(batch[i])]]

\* ids, embeddings, documents, metadatas = zip(*batch)
Unzip(batch) ==
    [ids |-> [i \in 1..Len(batch) |-> batch[i].id],
     embeddings |-> [i \in 1..Len(batch) |-> batch[i].vector],
     documents |-> [i \in 1..Len(batch) |-> batch[i].text],
     metadatas |-> [i \in 1..Len(batch) |-> Metadata(batch[i])]]

\* row i of the four lists of a collection.upsert call
Row(cols, i) ==
    [id |-> cols.ids[i], vector |-> cols.embeddings[i], text |-> cols.documents[i],
     source |-> cols.metadatas[i].source, fingerprint |-> cols.metadatas[i].fingerprint,
     filename |-> cols.metadatas[i].filename]

\* collection.upsert(ids, embeddings, documents, metadatas): insert or replace by id
CollectionUpsert(rows, cols) ==
    {r \in rows : \A i \in 1..Len(cols.ids) : cols.ids[i] # r.id}
    \cup {Row(cols, i) : i \in 1..Len(cols.ids)}

\* collection.get(ids=[id]): the documents, embeddings and metadatas of the id
Lookup(rows, id) ==
    {[text |-> r.text, vector |-> r.vector, metadata |-> Metadata(r)] :
        r \in {x \in rows : x.id = id}}

\* a slice that stops one row early
SubBatchShort(chunks, i) == SubSeq(chunks, i + 1, Min(i + UPSERT_BATCH, Len(chunks)) - 1)

\* chunks[i : i + UPSERT_BATCH], i counted from 0
SubBatch(chunks, i) == SubSeq(chunks, i + 1, Min(i + UPSERT_BATCH, Len(chunks)))

\* ChunkStore.upsert run without interruption from position i
RECURSIVE ChunkStoreUpsertFrom(_, _, _)
ChunkStoreUpsertFrom(rows, chunks, i) ==
    IF i >= Len(chunks) THEN rows
    ELSE ChunkStoreUpsertFrom(CollectionUpsert(rows, Unzip(SubBatch(chunks, i))),
                              chunks, i + UPSERT_BATCH)

ChunkStoreUpsert(rows, chunks) ==
    IF chunks = <<>> THEN rows ELSE ChunkStoreUpsertFrom(rows, chunks, 0)

\* the metadata of a row as collection.get(include=["metadatas"]) returns it
Meta(r) == [source |-> r.source, fingerprint |-> r.fingerprint]

\* ChunkStore.get_indexed_files over the metadata list in the store's order
RECURSIVE IndexedFrom(_, _)
IndexedFrom(metas, indexed) ==
    IF metas = <<>> THEN indexed
    ELSE LET meta == metas[1]
             next == IF meta.source # None /\ meta.fingerprint # None
                     THEN [n \in DOMAIN indexed \cup {meta.source} |->
                             IF n = meta.source THEN meta.fingerprint
                             ELSE indexed[n]]
                     ELSE indexed
         IN  IndexedFrom(Tail(metas), next)

GetIndexedFiles(metas) == IndexedFrom(metas, <<>>)

\* The collection returns its rows in an order the pipeline does not control.
\* Rows with equal metadata are interchangeable for get_indexed_files, so the
\* orders of the distinct metadata records are the outcomes.
MetadataOrders(rows) == Orderings({Meta(r) : r \in rows})

-----------------------------------------------------------------------------
(* Scanner *)

Rank(name) == CHOOSE i \in 1..Len(FileNames) : FileNames[i] = name

\* sorted(...) of a set of paths of one directory: ascending by name
RECURSIVE Sorted(_)
Sorted(S) ==
    IF S = {} THEN <<>>
    ELSE LET m == CHOOSE x \in S : \A y \in S : Rank(x) <= Rank(y)
         IN  <<m>> \o Sorted(S \ {m})

DictGet(indexed, name) == IF name \in DOMAIN indexed THEN indexed[name] ELSE None

\* a scan that takes only the files the map does not know
ScanChangedNewOnly(indexed, name, fp) == name \notin DOMAIN indexed

ScanChanged(indexed, name, fp) == DictGet(indexed, name) # fp

\* p.is_file() for the entries of the docs directory
RegularFiles(d) == {name \in DOMAIN d : d[name].kind = "file"}

\* Scanner.scan: exists is docs_dir.exists(), d maps the entries of the
\* directory to their stat, indexed is the result of get_indexed_files()
Scan(exists, d, indexed) ==
    IF ~exists THEN <<>>
    ELSE SelectSeq(Sorted(RegularFiles(d)),
                   LAMBDA name : ScanChanged(indexed, name, ScannerFingerprint(d, name)))

-----------------------------------------------------------------------------
(* BatchBuilder *)

\* a slicing loop that steps one item too far
RECURSIVE ChunkFromSkip(_, _, _)
ChunkFromSkip(items, size, i) ==
    IF i >= Len(items) THEN <<>>
    ELSE <<SubSeq(items, i + 1, Min(i + size, Len(items)))>>
         \o ChunkFromSkip(items, size, i + size + 1)

\* BatchBuilder._chunk with self._n = n
RECURSIVE ChunkFrom(_, _, _)
ChunkFrom(items, size, i) ==
    IF i >= Len(items) THEN <<>>
    ELSE <<SubSeq(items, i + 1, Min(i + size, Len(items)))>>
         \o ChunkFrom(items, size, i + size)

\* a group size rounded down instead of up
ChunkSizeFloor(len, n) == IF len \div n = 0 THEN 1 ELSE len \div n

ChunkSize(len, n) == Ceil(len, n)

Chunk(items, n) ==
    IF items = <<>> THEN <<>> ELSE ChunkFrom(items, ChunkSize(Len(items), n), 0)

IsZip(path) == EndsWith(path, ".zip")

IsDirEntry(name) == EndsWith(name, "/")

FilesUnit(chunk) == [type |-> "files", paths |-> chunk]

ZipUnit(path, chunk) == [type |-> "zip_entries", zip_path |-> path, entries |-> chunk]

\* BatchBuilder._split_files
SplitFiles(files, n) ==
    LET regular == SelectSeq(files, LAMBDA f : ~IsZip(f))
        groups  == Chunk(regular, n)
    IN  [i \in 1..Len(groups) |-> FilesUnit(groups[i])]

\* the groups of entries of one archive, as work units
ZipUnits(path, namelist, n) ==
    LET entries == SelectSeq(namelist, LAMBDA e : ~IsDirEntry(e))
        groups == Chunk(entries, n)
    IN  [i \in 1..Len(groups) |-> ZipUnit(path, groups[i])]

\* BatchBuilder._split_zips; lists[path] is zf.namelist() of the archive path
RECURSIVE SplitZips(_, _, _)
SplitZips(files, lists, n) ==
    IF files = <<>> THEN <<>>
    ELSE (IF IsZip(files[1]) THEN ZipUnits(files[1], lists[files[1]], n) ELSE <<>>)
         \o SplitZips(Tail(files), lists, n)

\* BatchBuilder.build: the work units; unit i carries worker_id i - 1
Build(files, lists, n) == SplitFiles(files, n) \o SplitZips(files, lists, n)

-----------------------------------------------------------------------------
(* FileParser and EmbedWorker *)

\* st_size as a function of the content: the nodes of the file, plus one
BodySize(name, body) ==
    IF IsZip(name)
    THEN 1 + SumSeq([i \in 1..Len(ZipNameList) |->
                       IF IsDirEntry(ZipNameList[i]) THEN 0 ELSE body[ZipNameList[i]]])
    ELSE body

Document(source, fp, filename, nodes) ==
    [source |-> source, fingerprint |-> fp, filename |-> filename, nodes |-> nodes]

\* FileParser._parse_files: the documents of the loose files of a unit
ParseFiles(d, paths) ==
    [i \in 1..Len(paths) |->
        Document(paths[i], ParserFingerprint(d, paths[i]), None, d[paths[i]].body)]

\* a parser that names the entry, not the archive, as the source
ParseZipEntrySource(d, zip_path, entries) ==
    LET kept == SelectSeq(entries, LAMBDA e : d[zip_path].body[e] > 0)
    IN  [i \in 1..Len(kept) |->
            Document(kept[i], ParserFingerprint(d, zip_path), kept[i],
                     d[zip_path].body[kept[i]])]

\* FileParser._parse_zip: one document per entry whose text is not blank
ParseZip(d, zip_path, entries) ==
    LET kept == SelectSeq(entries, LAMBDA e : d[zip_path].body[e] > 0)
    IN  [i \in 1..Len(kept) |->
            Document(zip_path, ParserFingerprint(d, zip_path), kept[i],
                     d[zip_path].body[kept[i]])]

\* _read_zip_entry: the text of the entry, no text when reading it raised
ReadZipEntry(d, zip_path, name, bad) ==
    IF name \in bad THEN 0 ELSE d[zip_path].body[name]

\* FileParser.parse on a unit some of whose items cannot be read (bad): stat
\* and load_data of a loose file raise out of _parse_files, _read_zip_entry
\* catches what reading an entry raises
ParseResult(d, work, bad) ==
    IF work.type = "files"
    THEN IF \E i \in 1..Len(work.paths) : work.paths[i] \in bad
         THEN [raised |-> TRUE, docs |-> <<>>]
         ELSE [raised |-> FALSE, docs |-> ParseFiles(d, work.paths)]
    ELSE LET kept == SelectSeq(work.entries,
                        LAMBDA e : ReadZipEntry(d, work.zip_path, e, bad) > 0)
         IN  [raised |-> FALSE,
              docs |-> [i \in 1..Len(kept) |->
                          Document(work.zip_path, ParserFingerprint(d, work.zip_path),
                                   kept[i], ReadZipEntry(d, work.zip_path, kept[i], bad))]]

\* FileParser.parse
Parse(d, work) ==
    IF work.type = "files" THEN ParseFiles(d, work.paths)
    ELSE ParseZip(d, work.zip_path, work.entries)

\* splitter.get_nodes_from_documents: the nodes of each document, in order
DocNodes(doc) ==
    [k \in 1..doc.nodes |->
        [source |-> doc.source, fingerprint |-> doc.fingerprint,
         filename |-> doc.filename, text |-> k]]

GetNodes(docs) == Flatten([i \in 1..Len(docs) |-> DocNodes(docs[i])])

\* node ids that are counted per embed call and so repeat across calls
NodeIdPerCall(r, worker_id, k) == <<r, 0, k>>

\* node_id: a uuid, fresh for every node of every embed call of every run
NodeId(r, worker_id, k) == <<r, worker_id, k>>

\* the vector the sidecar computes for a text
Vec(text) == <<"vec", text>>

\* the body of a 2xx answer to POST /embed {"inputs": batch}: one vector per
\* input, in the order of the inputs
TeiEmbed(batch) == [j \in 1..Len(batch) |-> Vec(batch[j])]

\* texts[i : i + BATCH_SIZE], i counted from 0
TextSlice(texts, i) == SubSeq(texts, i + 1, Min(i + BATCH_SIZE, Len(texts)))

\* a loop that puts the vectors of each request in front of the earlier ones
RECURSIVE EmbedTextsPrepend(_, _)
EmbedTextsPrepend(texts, i) ==
    IF i >= Len(texts) THEN <<>>
    ELSE EmbedTextsPrepend(texts, i + BATCH_SIZE) \o TeiEmbed(TextSlice(texts, i))

\* EmbedWorker._embed_texts from position i, every request answered 2xx
RECURSIVE EmbedTextsFrom(_, _)
EmbedTextsFrom(texts, i) ==
    IF i >= Len(texts) THEN <<>>
    ELSE TeiEmbed(TextSlice(texts, i)) \o EmbedTextsFrom(texts, i + BATCH_SIZE)

EmbedTexts(texts) == EmbedTextsFrom(texts, 0)

\* EmbedWorker._chunk_and_embed: (node_id, embedding, text, metadata) per node;
\* zip stops at the shortest of nodes, embeddings and texts
ChunkAndEmbed(nodes, r, worker_id) ==
    IF nodes = <<>> THEN <<>>
    ELSE LET texts == [k \in 1..Len(nodes) |-> nodes[k].text]
             embeddings == EmbedTexts(texts)
         IN  [k \in 1..Min(Len(nodes), Min(Len(embeddings), Len(texts))) |->
                [id |-> NodeId(r, worker_id, k), vector |-> embeddings[k],
                 text |-> texts[k], source |-> nodes[k].source,
                 fingerprint |-> nodes[k].fingerprint, filename |-> nodes[k].filename]]

-----------------------------------------------------------------------------
(* The docs directory *)

LooseBodies == 0..MaxNodes

ZipBodies == [{e \in Range(ZipNameList) : ~IsDirEntry(e)} -> 0..MaxNodes]

Bodies(name) == IF IsZip(name) THEN ZipBodies ELSE LooseBodies

\* the stat and content of a regular file of the docs directory
FileRec(name, body) ==
    [kind |-> "file", mtime |-> 1, size |-> BodySize(name, body), body |-> body]

\* the docs directories the pipeline is run on: any subset of the names,
\* the loose file and the archive with any content
Disks ==
    {[n \in S |-> FileRec(n, IF IsZip(n) THEN zb ELSE lb)] :
        S \in SUBSET PipelineNames, lb \in LooseBodies, zb \in ZipBodies}

\* the file gets a new mtime and keeps its content and size; the docs
\* directory is not written while a run is under way, and writes are followed
\* as long as a run can still see them
Touch(name) ==
    /\ run.pc # "fanout"
    /\ runs < MaxRuns
    /\ name \in DOMAIN disk
    /\ disk[name].mtime < MaxMtime
    /\ disk' = [disk EXCEPT ![name].mtime = @ + 1]
    /\ settled' = settled \ {name}
    /\ quiet' = FALSE
    /\ UNCHANGED <<store, run, units, runs, faults, arg, ret, worker, embedder, mentions, rag>>

-----------------------------------------------------------------------------
(* IndexService.index *)

NBatches == N_WORKERS * WORKERS_PER_GPU

\* zf.namelist() of the archives of the docs directory
NameLists == [path \in {BZip} |-> ZipNameList]

Unit(work, worker_id) ==
    [work |-> work, worker_id |-> worker_id, st |-> "pending", chunks |-> <<>>, pos |-> 0]

\* the summary line f"Indexed {chunks:,} passages."
Summary(n) == <<"Indexed", n, "passages.">>

InFlight == {u \in 1..Len(units) : units[u].st = "incall"}

\* index() up to the fan-out: scan and build
IndexBegin(limit) ==
    /\ run.pc # "fanout"
    /\ runs < limit
    /\ \E order \in MetadataOrders(store) :
         LET files == Scan(TRUE, disk, GetIndexedFiles(order))
             batches == Build(files, NameLists, NBatches)
         IN  /\ run' = [pc |-> "fanout", files |-> files, summary |-> None,
                        store0 |-> store, quiet0 |-> quiet, overlap |-> FALSE]
             /\ units' = [i \in 1..Len(batches) |-> Unit(batches[i], i - 1)]
    /\ runs' = runs + 1
    /\ UNCHANGED <<disk, store, faults, settled, quiet, arg, ret, worker, embedder, mentions, rag>>

\* EmbedWorker.embed returns (chunks, worker_id)
Embed(u) ==
    /\ run.pc = "fanout"
    /\ units[u].st = "pending"
    /\ LET nodes == GetNodes(Parse(disk, units[u].work))
       IN  units' = [units EXCEPT ![u].st = "embedded",
                                  ![u].chunks = ChunkAndEmbed(nodes, runs, units[u].worker_id)]
    /\ UNCHANGED <<disk, store, run, runs, faults, settled, quiet, arg, ret, worker, embedder, mentions, rag>>

\* a /embed request of the unit is answered non-2xx: raise_for_status raises
EmbedFail(u) ==
    /\ run.pc = "fanout"
    /\ units[u].st = "pending"
    /\ GetNodes(Parse(disk, units[u].work)) # <<>>
    /\ faults < MaxFaults
    /\ units' = [units EXCEPT ![u].st = "embedfailed"]
    /\ faults' = faults + 1
    /\ UNCHANGED <<disk, store, run, runs, settled, quiet, arg, ret, worker, embedder, mentions, rag>>

\* UpsertWorker.upsert is entered with the result of an embed call and issues
\* the first collection.upsert, or returns at once for an empty list
UpsertStart(u) ==
    /\ run.pc = "fanout"
    /\ units[u].st = "embedded"
    /\ IF units[u].chunks = <<>>
       THEN units' = [units EXCEPT ![u].st = "done"]
       ELSE units' = [units EXCEPT ![u].st = "incall", ![u].pos = 0]
    /\ UNCHANGED <<disk, store, run, runs, faults, settled, quiet, arg, ret, worker, embedder, mentions, rag>>

\* a collection.upsert call returns: its rows are in the collection
StoreCallEnd(u) ==
    /\ units[u].st = "incall"
    /\ store' = CollectionUpsert(store, Unzip(SubBatch(units[u].chunks, units[u].pos)))
    /\ units' = [units EXCEPT
                   ![u].pos = @ + UPSERT_BATCH,
                   ![u].st = IF units[u].pos + UPSERT_BATCH >= Len(units[u].chunks)
                             THEN "done" ELSE "between"]
    /\ run' = [run EXCEPT !.overlap =
                  @ \/ \E v \in 1..Len(units) :
                         v # u /\ units[v].st \in {"incall", "between"}]
    /\ UNCHANGED <<disk, runs, faults, settled, quiet, arg, ret, worker, embedder, mentions, rag>>

\* the loop of ChunkStore.upsert issues the next collection.upsert
StoreCallBegin(u) ==
    /\ units[u].st = "between"
    /\ units' = [units EXCEPT ![u].st = "incall"]
    /\ UNCHANGED <<disk, store, run, runs, faults, settled, quiet, arg, ret, worker, embedder, mentions, rag>>

\* the collection rejects the call: the exception leaves ChunkStore.upsert
StoreCallFail(u) ==
    /\ units[u].st = "incall"
    /\ faults < MaxFaults
    /\ units' = [units EXCEPT ![u].st = "upsertfailed"]
    /\ faults' = faults + 1
    /\ UNCHANGED <<disk, store, run, runs, settled, quiet, arg, ret, worker, embedder, mentions, rag>>

\* a fan-out that takes a failed call for a finished one
AllDoneOrFailed ==
    \A u \in 1..Len(units) : units[u].st \in {"done", "embedfailed", "upsertfailed"}

AllDone == \A u \in 1..Len(units) : units[u].st = "done"

AnyFailed == \E u \in 1..Len(units) : units[u].st \in {"embedfailed", "upsertfailed"}

\* sum(...) of the upsert results and the summary
IndexReturn ==
    /\ run.pc = "fanout"
    /\ AllDone
    /\ run' = [run EXCEPT !.pc = "ok",
                 !.summary = Summary(SumSeq([u \in 1..Len(units) |-> Len(units[u].chunks)]))]
    /\ settled' = settled \cup Range(run.files)
    /\ quiet' = TRUE
    /\ UNCHANGED <<disk, store, units, runs, faults, arg, ret, worker, embedder, mentions, rag>>

\* the exception of a failed embed or upsert call leaves index(); results not
\* yet passed to upsert are dropped, calls under way in the worker may go on
IndexRaise ==
    /\ run.pc = "fanout"
    /\ AnyFailed
    /\ run' = [run EXCEPT !.pc = "error"]
    /\ quiet' = FALSE
    /\ UNCHANGED <<disk, store, units, runs, faults, settled, arg, ret, worker, embedder, mentions, rag>>

-----------------------------------------------------------------------------
(* The objects after construction *)

\* an EmbedWorker container before modal.enter: no sidecar process, no driver
\* state but stopped, nothing sent
EmbedderNew(n) ==
    [container |-> n, pc |-> "new", tei |-> "stopped", probed |-> FALSE,
     spawns |-> 0, failures |-> 0, requests |-> 0]

\* the Bot before any mention: no handler thread
NoMentions == <<>>

\* the sentinel line
END_TURN == <<"---END_TURN---">>

\* a line is a sequence of tokens; END_TURN in line is the test of the reader
HasEndTurn(text) == \E i \in 1..Len(text) : text[i] = END_TURN[1]

\* what handle() prints for a request: text of the model or of a command,
\* which nothing keeps from containing the sentinel
OutputTexts == {<<"text">>, <<"text", END_TURN[1], "text">>}

ErrorText == <<"Error processing message">>

\* the lines main() prints before it enters the loop
StartupTexts == <<<<"Loading LLM...">>, <<"Loading indexer...">>,
                  <<"Models loaded. Ready for queries.">>, END_TURN>>

\* the concurrent callers of run_rag_query
RagCallers == {1, 2}

\* a line of stdout, with the request whose handling printed it (0: main)
Line(req, text) == [req |-> req, text |-> text]

\* module state of agents/slackbot.py at import, and callers that have not
\* called yet
RagNew ==
    [proc |-> "none", lock |-> 0, stdin |-> <<>>, stdout |-> <<>>, log |-> <<>>,
     server |-> [pc |-> "none", cur |-> 0, printed |-> 0],
     callers |-> [c \in RagCallers |-> [pc |-> "called", lines |-> <<>>]]]

\* UpsertWorker._setup
WorkerIdle ==
    [queue |-> <<>>, expected |-> 0, drained |-> 0, sent |-> {},
     worker_manifests |-> <<>>, manifest |-> <<>>, result |-> None, finalized |-> 0,
     alive |-> TRUE, flushes |-> <<>>]

\* the service is constructed on any docs directory and an empty collection
Init ==
    /\ disk \in Disks
    /\ store = {}
    /\ run = [pc |-> "idle", files |-> <<>>, summary |-> None, store0 |-> {},
              quiet0 |-> FALSE, overlap |-> FALSE]
    /\ units = <<>>
    /\ runs = 0
    /\ faults = 0
    /\ settled = {}
    /\ quiet = FALSE
    /\ arg = None
    /\ ret = None
    /\ worker = WorkerIdle
    /\ embedder = EmbedderNew(1)
    /\ mentions = NoMentions
    /\ rag = RagNew

Next ==
    \/ \E name \in PipelineNames : Touch(name)
    \/ IndexBegin(MaxRuns)
    \/ \E u \in 1..Len(units) : Embed(u)
    \/ \E u \in 1..Len(units) : EmbedFail(u)
    \/ \E u \in 1..Len(units) : UpsertStart(u)
    \/ \E u \in 1..Len(units) : StoreCallEnd(u)
    \/ \E u \in 1..Len(units) : StoreCallBegin(u)
    \/ \E u \in 1..Len(units) : StoreCallFail(u)
    \/ IndexReturn
    \/ IndexRaise

Spec == Init /\ [][Next]_vars

\* one index() call on a docs directory that is not written meanwhile
NextRun ==
    \/ IndexBegin(1)
    \/ \E u \in 1..Len(units) : Embed(u)
    \/ \E u \in 1..Len(units) : EmbedFail(u)
    \/ \E u \in 1..Len(units) : UpsertStart(u)
    \/ \E u \in 1..Len(units) : StoreCallEnd(u)
    \/ \E u \in 1..Len(units) : StoreCallBegin(u)
    \/ \E u \in 1..Len(units) : StoreCallFail(u)
    \/ IndexReturn
    \/ IndexRaise

SpecRun == Init /\ [][NextRun]_vars

\* the run is cancelled while index() waits on the fan-out: the cancellation
\* is raised out of index(), which has no handler for it
IndexCancel ==
    /\ run.pc = "fanout"
    /\ run' = [run EXCEPT !.pc = "cancelled"]
    /\ quiet' = FALSE
    /\ UNCHANGED <<disk, store, units, runs, faults, settled, arg, ret, worker, embedder, mentions, rag>>

\* one index() call that may be cancelled, no call failing
NextCancel ==
    \/ IndexBegin(1)
    \/ \E u \in 1..Len(units) : Embed(u)
    \/ \E u \in 1..Len(units) : UpsertStart(u)
    \/ \E u \in 1..Len(units) : StoreCallEnd(u)
    \/ \E u \in 1..Len(units) : StoreCallBegin(u)
    \/ IndexReturn
    \/ IndexCancel

SpecCancel == Init /\ [][NextCancel]_vars

\* index() called again after the files were touched, no call failing
NextRerun ==
    \/ \E name \in PipelineNames : Touch(name)
    \/ IndexBegin(2)
    \/ \E u \in 1..Len(units) : Embed(u)
    \/ \E u \in 1..Len(units) : UpsertStart(u)
    \/ \E u \in 1..Len(units) : StoreCallEnd(u)
    \/ \E u \in 1..Len(units) : StoreCallBegin(u)
    \/ IndexReturn

SpecRerun == Init /\ [][NextRerun]_vars

-----------------------------------------------------------------------------
(* Bot.handle_mention: one thread per mention, IndexHandler.handle in each *)

\* the two file-upload mentions that are handled at the same time
MentionThreads == {1, 2}

\* a thread started by handle_mention, before Router.handle has run
MentionNew == [pc |-> "started", run |-> 0, files |-> <<>>, units |-> <<>>]

\* IndexHandler._download and the commit: the file of the event is written
\* into the docs directory, with the time of the write as its mtime
HandleDownload(t) ==
    /\ mentions[t].pc = "started"
    /\ \E name \in PipelineNames : \E body \in Bodies(name) :
         /\ name \in DOMAIN disk => disk[name].mtime < MaxMtime
         /\ disk' = [n \in DOMAIN disk \cup {name} |->
                       IF n = name
                       THEN [FileRec(name, body) EXCEPT
                               !.mtime = IF name \in DOMAIN disk
                                         THEN disk[name].mtime + 1 ELSE 1]
                       ELSE disk[n]]
    /\ mentions' = [mentions EXCEPT ![t].pc = "saved"]
    /\ UNCHANGED <<store, run, units, runs, faults, settled, quiet, arg, ret, worker, embedder, rag>>

\* no file of the event has a download url: handle() says so and returns
HandleNothingSaved(t) ==
    /\ mentions[t].pc = "started"
    /\ mentions' = [mentions EXCEPT ![t].pc = "returned"]
    /\ UNCHANGED <<disk, store, run, units, runs, faults, settled, quiet, arg, ret, worker, embedder, rag>>

\* IndexHandler._index enters index(): scan and build
HandleIndexBegin(t) ==
    /\ mentions[t].pc = "saved"
    /\ \E order \in MetadataOrders(store) :
         LET files == Scan(TRUE, disk, GetIndexedFiles(order))
             batches == Build(files, NameLists, NBatches)
         IN  mentions' = [mentions EXCEPT ![t] =
                 [pc |-> "fanout", run |-> runs + 1, files |-> files,
                  units |-> [i \in 1..Len(batches) |-> Unit(batches[i], i - 1)]]]
    /\ runs' = runs + 1
    /\ UNCHANGED <<disk, store, run, units, faults, settled, quiet, arg, ret, worker, embedder, rag>>

\* EmbedWorker.embed for a work unit of the run of thread t
HandleEmbed(t, u) ==
    /\ mentions[t].pc = "fanout"
    /\ mentions[t].units[u].st = "pending"
    /\ LET nodes == GetNodes(Parse(disk, mentions[t].units[u].work))
       IN  mentions' = [mentions EXCEPT
               ![t].units[u].st = "embedded",
               ![t].units[u].chunks =
                   ChunkAndEmbed(nodes, mentions[t].run, mentions[t].units[u].worker_id)]
    /\ UNCHANGED <<disk, store, run, units, runs, faults, settled, quiet, arg, ret, worker, embedder, rag>>

\* UpsertWorker.upsert for an embed result of the run of thread t; the
\* sub-batches of the call are taken in one step here
HandleUpsert(t, u) ==
    /\ mentions[t].pc = "fanout"
    /\ mentions[t].units[u].st = "embedded"
    /\ store' = ChunkStoreUpsert(store, mentions[t].units[u].chunks)
    /\ mentions' = [mentions EXCEPT ![t].units[u].st = "done"]
    /\ UNCHANGED <<disk, run, units, runs, faults, settled, quiet, arg, ret, worker, embedder, rag>>

\* index() returns its summary and the thread posts it
HandleIndexReturn(t) ==
    /\ mentions[t].pc = "fanout"
    /\ \A u \in 1..Len(mentions[t].units) : mentions[t].units[u].st = "done"
    /\ mentions' = [mentions EXCEPT ![t].pc = "returned"]
    /\ UNCHANGED <<disk, store, run, units, runs, faults, settled, quiet, arg, ret, worker, embedder, rag>>

\* two mentions arrive at a Bot whose docs directory and collection are empty
InitMentions ==
    /\ disk = <<>>
    /\ store = {}
    /\ run = [pc |-> "idle", files |-> <<>>, summary |-> None, store0 |-> {},
              quiet0 |-> FALSE, overlap |-> FALSE]
    /\ units = <<>>
    /\ runs = 0
    /\ faults = 0
    /\ settled = {}
    /\ quiet = FALSE
    /\ arg = None
    /\ ret = None
    /\ worker = WorkerIdle
    /\ embedder = EmbedderNew(1)
    /\ mentions = [t \in MentionThreads |-> MentionNew]
    /\ rag = RagNew

NextMentions ==
    \/ \E t \in MentionThreads : HandleDownload(t)
    \/ \E t \in MentionThreads : HandleNothingSaved(t)
    \/ \E t \in MentionThreads : HandleIndexBegin(t)
    \/ \E t \in MentionThreads : \E u \in 1..Len(mentions[t].units) : HandleEmbed(t, u)
    \/ \E t \in MentionThreads : \E u \in 1..Len(mentions[t].units) : HandleUpsert(t, u)
    \/ \E t \in MentionThreads : HandleIndexReturn(t)

SpecMentions == InitMentions /\ [][NextMentions]_vars

-----------------------------------------------------------------------------
(* The pipeline at rest, for the functions applied on their own *)

Idle ==
    /\ disk = <<>>
    /\ store = {}
    /\ run = [pc |-> "idle", files |-> <<>>, summary |-> None, store0 |-> {},
              quiet0 |-> FALSE, overlap |-> FALSE]
    /\ units = <<>>
    /\ runs = 0
    /\ faults = 0
    /\ settled = {}
    /\ quiet = FALSE
    /\ worker = WorkerIdle
    /\ embedder = EmbedderNew(1)
    /\ mentions = NoMentions
    /\ rag = RagNew

pipeline == <<disk, store, run, units, runs, faults, settled, quiet, worker, embedder, mentions, rag>>

-----------------------------------------------------------------------------
(* The RAG server of agents/rag_agent and run_rag_query of agents/slackbot *)

\* with _rag_lock, then _ensure_rag_process: the first caller starts the
\* server process
RagAcquire(c) ==
    /\ rag.callers[c].pc = "called"
    /\ rag.lock = 0
    /\ rag' = IF rag.proc = "none"
              THEN [rag EXCEPT !.lock = c, !.proc = "running", !.server.pc = "main",
                               !.callers[c].pc = "init"]
              ELSE [rag EXCEPT !.lock = c, !.callers[c].pc = "ready"]
    /\ UNCHANGED <<disk, store, run, units, runs, faults, settled, quiet, arg, ret, worker, embedder, mentions>>

\* _ensure_rag_process reads the lines of the start up to the first END_TURN
RagInitRead(c) ==
    /\ rag.callers[c].pc = "init"
    /\ rag.stdout # <<>>
    /\ rag' = [rag EXCEPT !.stdout = Tail(@),
                          !.callers[c].pc = IF HasEndTurn(Head(rag.stdout).text)
                                            THEN "ready" ELSE "init"]
    /\ UNCHANGED <<disk, store, run, units, runs, faults, settled, quiet, arg, ret, worker, embedder, mentions>>

\* run_rag_query writes the request, one line of JSON, to stdin
RagSend(c) ==
    /\ rag.callers[c].pc = "ready"
    /\ rag' = [rag EXCEPT !.stdin = Append(@, c), !.callers[c].pc = "reading"]
    /\ UNCHANGED <<disk, store, run, units, runs, faults, settled, quiet, arg, ret, worker, embedder, mentions>>

\* the reading loop of run_rag_query: a line with the sentinel ends it, the
\* lines so far are returned and the lock is released
RagReadLine(c) ==
    /\ rag.callers[c].pc = "reading"
    /\ rag.stdout # <<>>
    /\ rag' = IF HasEndTurn(Head(rag.stdout).text)
              THEN [rag EXCEPT !.stdout = Tail(@), !.lock = 0,
                               !.callers[c].pc = "returned"]
              ELSE [rag EXCEPT !.stdout = Tail(@),
                               !.callers[c].lines = Append(@, Head(rag.stdout))]
    /\ UNCHANGED <<disk, store, run, units, runs, faults, settled, quiet, arg, ret, worker, embedder, mentions>>

\* main(): the models are loaded, the first END_TURN is printed
ServerMain ==
    /\ rag.server.pc = "main"
    /\ LET lines == [i \in 1..Len(StartupTexts) |-> Line(0, StartupTexts[i])]
       IN  rag' = [rag EXCEPT !.stdout = @ \o lines, !.log = @ \o lines,
                              !.server.pc = "read"]
    /\ UNCHANGED <<disk, store, run, units, runs, faults, settled, quiet, arg, ret, worker, embedder, mentions>>

\* MessageHandler.run takes the next line of stdin and enters handle()
ServerRead ==
    /\ rag.server.pc = "read"
    /\ rag.stdin # <<>>
    /\ rag' = [rag EXCEPT !.stdin = Tail(@),
                          !.server = [pc |-> "handle", cur |-> Head(rag.stdin), printed |-> 0]]
    /\ UNCHANGED <<disk, store, run, units, runs, faults, settled, quiet, arg, ret, worker, embedder, mentions>>

\* handle() prints a line
ServerPrint ==
    /\ rag.server.pc = "handle"
    /\ rag.server.printed < MaxOutputLines
    /\ \E text \in OutputTexts :
         rag' = [rag EXCEPT !.stdout = Append(@, Line(rag.server.cur, text)),
                            !.log = Append(@, Line(rag.server.cur, text)),
                            !.server.printed = @ + 1]
    /\ UNCHANGED <<disk, store, run, units, runs, faults, settled, quiet, arg, ret, worker, embedder, mentions>>

\* handle() raises: the except branch prints the error line
ServerRaise ==
    /\ rag.server.pc = "handle"
    /\ rag' = [rag EXCEPT !.stdout = Append(@, Line(rag.server.cur, ErrorText)),
                          !.log = Append(@, Line(rag.server.cur, ErrorText)),
                          !.server.pc = "end"]
    /\ UNCHANGED <<disk, store, run, units, runs, faults, settled, quiet, arg, ret, worker, embedder, mentions>>

\* handle() returns
ServerHandled ==
    /\ rag.server.pc = "handle"
    /\ rag' = [rag EXCEPT !.server.pc = "end"]
    /\ UNCHANGED <<disk, store, run, units, runs, faults, settled, quiet, arg, ret, worker, embedder, mentions>>

\* print(END_TURN) after the try statement
ServerEndTurn ==
    /\ rag.server.pc = "end"
    /\ rag' = [rag EXCEPT !.stdout = Append(@, Line(rag.server.cur, END_TURN)),
                          !.log = Append(@, Line(rag.server.cur, END_TURN)),
                          !.server.pc = "read"]
    /\ UNCHANGED <<disk, store, run, units, runs, faults, settled, quiet, arg, ret, worker, embedder, mentions>>

InitRag == Idle /\ arg = None /\ ret = None

NextRag ==
    \/ \E c \in RagCallers : RagAcquire(c)
    \/ \E c \in RagCallers : RagInitRead(c)
    \/ \E c \in RagCallers : RagSend(c)
    \/ \E c \in RagCallers : RagReadLine(c)
    \/ ServerMain
    \/ ServerRead
    \/ ServerPrint
    \/ ServerRaise
    \/ ServerHandled
    \/ ServerEndTurn

SpecRag == InitRag /\ [][NextRag]_vars

-----------------------------------------------------------------------------
(* Scanner.scan applied to a directory and an indexed-files map *)

ScanStats == [kind : {"file", "dir"}, mtime : 1..MaxMtime, size : {1}]

ScanDirs == UNION {[S -> ScanStats] : S \in SUBSET Range(FileNames)}

ScanFingerprints == {Fingerprint(st) : st \in ScanStats}

ScanIndexed == UNION {[S -> ScanFingerprints] : S \in SUBSET Range(FileNames)}

InitScan ==
    /\ Idle
    /\ arg \in [exists : BOOLEAN, dir : ScanDirs, indexed : ScanIndexed]
    /\ arg.exists \/ arg.dir = <<>>
    /\ ret = None

ScanApply ==
    /\ ret = None
    /\ ret' = [files |-> Scan(arg.exists, arg.dir, arg.indexed)]
    /\ UNCHANGED <<pipeline, arg>>

SpecScan == InitScan /\ [][ScanApply]_vars

-----------------------------------------------------------------------------
(* BatchBuilder.build applied to a file list *)

ZZip == <<"z", ".zip">>

BuildPool == {ATxt, CTxt, BZip, ZZip}

\* the lists of distinct paths, as scan() returns them
BuildFileLists == UNION {Orderings(S) : S \in SUBSET BuildPool}

\* the name lists of an archive: the prefixes of one list of entries
EntryNames == << <<"e1">>, <<"d", "/">>, <<"e2">>, <<"e3">> >>

EntryLists == {SubSeq(EntryNames, 1, k) : k \in 0..Len(EntryNames)}

InitBuild ==
    /\ Idle
    /\ arg \in [files : BuildFileLists, lists : [{BZip, ZZip} -> EntryLists], n : 1..MaxW]
    /\ ret = None

BuildApply ==
    /\ ret = None
    /\ ret' = [batches |-> Build(arg.files, arg.lists, arg.n)]
    /\ UNCHANGED <<pipeline, arg>>

SpecBuild == InitBuild /\ [][BuildApply]_vars

-----------------------------------------------------------------------------
(* BatchBuilder.build for any n_batches, zero included *)

\* _chunk divides by self._n only after the test for an empty list
ChunkRaises(items, n) == items # <<>> /\ n = 0

\* an exception leaves build: ZeroDivisionError of a _chunk call
BuildRaises(files, lists, n) ==
    \/ ChunkRaises(SelectSeq(files, LAMBDA f : ~IsZip(f)), n)
    \/ \E i \in 1..Len(files) :
          /\ IsZip(files[i])
          /\ ChunkRaises(SelectSeq(lists[files[i]], LAMBDA e : ~IsDirEntry(e)), n)

BuildResult(files, lists, n) ==
    IF BuildRaises(files, lists, n)
    THEN [raised |-> TRUE, batches |-> <<>>]
    ELSE [raised |-> FALSE, batches |-> Build(files, lists, n)]

InitBuildAny ==
    /\ Idle
    /\ arg \in [files : BuildFileLists, lists : [{BZip, ZZip} -> EntryLists], n : 0..MaxW]
    /\ ret = None

BuildAnyApply ==
    /\ ret = None
    /\ ret' = BuildResult(arg.files, arg.lists, arg.n)
    /\ UNCHANGED <<pipeline, arg>>

SpecBuildAny == InitBuildAny /\ [][BuildAnyApply]_vars

-----------------------------------------------------------------------------
(* BatchBuilder._chunk applied to a list of N items *)

InitChunk ==
    /\ Idle
    /\ arg \in [items : {[i \in 1..len |-> i] : len \in 1..MaxItems}, n : 1..MaxChunkW]
    /\ ret = None

ChunkApply ==
    /\ ret = None
    /\ ret' = [groups |-> Chunk(arg.items, arg.n)]
    /\ UNCHANGED <<pipeline, arg>>

SpecChunk == InitChunk /\ [][ChunkApply]_vars

-----------------------------------------------------------------------------
(* EmbedWorker._chunk_and_embed applied to a node list *)

EmbedTextPool == {"t1", "t2", "t3"}

EmbedNodePool ==
    {[source |-> src, fingerprint |-> <<1, 1>>, filename |-> None, text |-> t] :
        src \in {ATxt, CTxt}, t \in EmbedTextPool}

EmbedNodeLists == UNION {[1..len -> EmbedNodePool] : len \in 0..MaxEmbedNodes}

InitEmbed ==
    /\ Idle
    /\ arg \in {[nodes |-> ns, worker_id |-> w] : ns \in EmbedNodeLists, w \in {0, 1}}
    /\ ret = None

EmbedApply ==
    /\ ret = None
    /\ ret' = [chunks |-> ChunkAndEmbed(arg.nodes, 1, arg.worker_id)]
    /\ UNCHANGED <<pipeline, arg>>

SpecEmbed == InitEmbed /\ [][EmbedApply]_vars

-----------------------------------------------------------------------------
(* FileParser.parse applied to a work unit with unreadable items *)

ParseDisks ==
    {[n \in {ATxt, BZip, CTxt} |->
        FileRec(n, IF n = ATxt THEN la ELSE IF n = CTxt THEN lc ELSE zb)] :
        la \in LooseBodies, lc \in LooseBodies, zb \in ZipBodies}

ParseUnits ==
    {FilesUnit(<<ATxt>>), FilesUnit(<<ATxt, CTxt>>),
     ZipUnit(BZip, << <<"e1">> >>), ZipUnit(BZip, << <<"e1">>, <<"e2">> >>)}

\* the loose paths or the entries of a work unit
WorkItems(work) == IF work.type = "files" THEN work.paths ELSE work.entries

InitParse ==
    /\ Idle
    /\ arg \in {[d |-> d, work |-> w, bad |-> b] :
                  d \in ParseDisks, w \in ParseUnits,
                  b \in SUBSET {<<"e1">>, <<"e2">>, ATxt, CTxt}}
    /\ arg.bad \subseteq Range(WorkItems(arg.work))
    /\ ret = None

ParseApply ==
    /\ ret = None
    /\ ret' = ParseResult(arg.d, arg.work, arg.bad)
    /\ UNCHANGED <<pipeline, arg>>

SpecParse == InitParse /\ [][ParseApply]_vars

-----------------------------------------------------------------------------
(* _fingerprint observed twice on a file that may be written in between *)

FileContents == UNION {[1..len -> {"x", "y"}] : len \in 0..MaxContent}

\* path.stat() of a file: its mtime and the length of its content
FileStat(f) == [mtime |-> f.mtime, size |-> Len(f.content)]

InitFingerprint ==
    /\ Idle
    /\ \E c \in FileContents : \E m \in 1..MaxMtime :
          arg = [before |-> [content |-> c, mtime |-> m],
                 now |-> [content |-> c, mtime |-> m], modified |-> FALSE]
    /\ ret = None

\* the content is replaced; the mtime moves on, or is what it was (a write
\* within the clock's resolution, or a writer that restores the timestamp)
FileWrite(c) ==
    /\ ret = None
    /\ c # arg.now.content
    /\ \E m \in {arg.now.mtime, arg.now.mtime + 1} \cap 1..MaxMtime :
          arg' = [arg EXCEPT !.now = [content |-> c, mtime |-> m], !.modified = TRUE]
    /\ UNCHANGED <<pipeline, ret>>

\* the mtime is set (touch, utime) and the content kept
FileSetMtime(m) ==
    /\ ret = None
    /\ m # arg.now.mtime
    /\ arg' = [arg EXCEPT !.now.mtime = m, !.modified = TRUE]
    /\ UNCHANGED <<pipeline, ret>>

\* the fingerprint at the first observation and the fingerprint now
FingerprintObserve ==
    /\ ret = None
    /\ ret' = [first |-> Fingerprint(FileStat(arg.before)),
               second |-> Fingerprint(FileStat(arg.now))]
    /\ UNCHANGED <<pipeline, arg>>

NextFingerprint ==
    \/ \E c \in FileContents : FileWrite(c)
    \/ \E m \in 1..MaxMtime : FileSetMtime(m)
    \/ FingerprintObserve

SpecFingerprint == InitFingerprint /\ [][NextFingerprint]_vars

-----------------------------------------------------------------------------
(* IndexPipeline.reindex of agents/index_pipeline with its UpsertWorker *)

\* the docs directory of the runs of the queueing worker
WorkerDisk ==
    [n \in {ATxt, BZip, CTxt} |->
        FileRec(n, IF IsZip(n)
                   THEN [e \in {x \in Range(ZipNameList) : ~IsDirEntry(x)} |-> 1]
                   ELSE 1)]

\* batches of reindex: one work unit per loose file and per archive entry
WorkerBatches == Build(FileNames, NameLists, NBatches)

\* the (chunks, worker_id, work) that EmbedWorker.embed sends for batch w
Received(w) ==
    [chunks |-> ChunkAndEmbed(GetNodes(Parse(WorkerDisk, WorkerBatches[w + 1])), 1, w),
     worker_id |-> w, work |-> WorkerBatches[w + 1]]

\* Queue.full(): never with maxsize 0
QueueFull(q) == QueueMaxsize > 0 /\ Len(q) >= QueueMaxsize

\* Manifest._file_paths
ManifestPaths(work) == IF work.type = "files" THEN work.paths ELSE <<work.zip_path>>

\* the entries Manifest.write_worker writes for a work unit
ManifestEntries(work) ==
    [name \in Range(ManifestPaths(work)) |-> ScannerFingerprint(WorkerDisk, name)]

\* manifest.update(entries)
DictUpdate(manifest, entries) ==
    [name \in DOMAIN manifest \cup DOMAIN entries |->
        IF name \in DOMAIN entries THEN entries[name] ELSE manifest[name]]

\* Manifest.merge: the worker manifests merged in the order of their names
RECURSIVE MergeFrom(_, _, _)
MergeFrom(manifest, files, w) ==
    IF w >= Len(WorkerBatches) THEN manifest
    ELSE MergeFrom(IF w \in DOMAIN files THEN DictUpdate(manifest, files[w]) ELSE manifest,
                   files, w + 1)

\* UpsertWorker.begin(n_batches), called by reindex before the embed calls
WorkerBegin ==
    /\ worker.expected = 0
    /\ worker' = [worker EXCEPT !.expected = Len(WorkerBatches), !.drained = 0]
    /\ UNCHANGED <<disk, store, run, units, runs, faults, settled, quiet, arg, ret, embedder, mentions, rag>>

\* UpsertWorker.receive: Queue.put, which waits only while the queue is full
Receive(w) ==
    /\ worker.expected > 0
    /\ w \notin worker.sent
    /\ ~QueueFull(worker.queue)
    /\ worker' = [worker EXCEPT !.queue = Append(@, Received(w)), !.sent = @ \cup {w}]
    /\ UNCHANGED <<disk, store, run, units, runs, faults, settled, quiet, arg, ret, embedder, mentions, rag>>

\* one turn of UpsertWorker._drain, with _finalize after the expected count
Drain ==
    /\ worker.queue # <<>>
    /\ LET item == Head(worker.queue)
           files == [v \in DOMAIN worker.worker_manifests \cup {item.worker_id} |->
                       IF v = item.worker_id THEN ManifestEntries(item.work)
                       ELSE worker.worker_manifests[v]]
           last == worker.expected # 0 /\ worker.drained + 1 >= worker.expected
           rows == ChunkStoreUpsert(store, item.chunks)
           merged == MergeFrom(worker.manifest, files, 0)
       IN  /\ store' = rows
           /\ worker' = [worker EXCEPT
                 !.queue = Tail(@),
                 !.drained = @ + 1,
                 !.worker_manifests = IF last THEN <<>> ELSE files,
                 !.manifest = IF last THEN merged ELSE @,
                 !.result = IF last
                            THEN <<"Done!", Cardinality(rows), Cardinality(DOMAIN merged)>>
                            ELSE @,
                 !.finalized = IF last THEN @ + 1 ELSE @]
    /\ UNCHANGED <<disk, run, units, runs, faults, settled, quiet, arg, ret, embedder, mentions, rag>>

\* a turn of _drain in which store.upsert raises: the except branch prints
\* the error and the loop goes on, the batch is gone from the queue and is
\* not counted.  The batches of this directory have one sub-batch, so no row
\* of the batch is stored.
DrainUpsertRaises ==
    /\ worker.queue # <<>>
    /\ faults < MaxFaults
    /\ worker' = [worker EXCEPT !.queue = Tail(@)]
    /\ faults' = faults + 1
    /\ UNCHANGED <<disk, store, run, units, runs, settled, quiet, arg, ret, embedder, mentions, rag>>

\* a turn of _drain in which manifest.write_worker raises after the upsert
DrainWriteRaises ==
    /\ worker.queue # <<>>
    /\ faults < MaxFaults
    /\ store' = ChunkStoreUpsert(store, Head(worker.queue).chunks)
    /\ worker' = [worker EXCEPT !.queue = Tail(@)]
    /\ faults' = faults + 1
    /\ UNCHANGED <<disk, run, units, runs, settled, quiet, arg, ret, embedder, mentions, rag>>

InitWorker == Idle /\ arg = None /\ ret = None

NextWorker ==
    \/ WorkerBegin
    \/ \E w \in 0..(Len(WorkerBatches) - 1) : Receive(w)
    \/ Drain
    \/ DrainUpsertRaises
    \/ DrainWriteRaises

SpecWorker == InitWorker /\ [][NextWorker]_vars

\* a turn of the drain loop, raising or not
DrainTurn == Drain \/ DrainUpsertRaises \/ DrainWriteRaises

\* the drain thread is a daemon thread in a loop that blocks only on an empty
\* queue, and every spawned embed call makes its receive() call
SpecWorkerLive ==
    /\ InitWorker
    /\ [][NextWorker]_vars
    /\ WF_vars(WorkerBegin)
    /\ WF_vars(\E w \in 0..(Len(WorkerBatches) - 1) : Receive(w))
    /\ WF_vars(DrainTurn)

-----------------------------------------------------------------------------
(* UpsertWorker of agents/index_pipeline/embed_worker: receive, flush, _drain *)

\* the threading.Event of the k-th flush() call, as an item of the queue
Event(k) == [event |-> k]

\* isinstance(item, threading.Event)
IsEvent(item) == "event" \in DOMAIN item

\* a put that goes in front of the waiting items
QueuePutFront(q, item) == <<item>> \o q

\* Queue.put of a FIFO queue
QueuePut(q, item) == Append(q, item)

\* receive(): enqueue the batch of an embed call and return
FlushWorkerReceive(w) ==
    /\ w \notin worker.sent
    /\ worker' = [worker EXCEPT !.queue = QueuePut(@, Received(w)), !.sent = @ \cup {w}]
    /\ UNCHANGED <<disk, store, run, units, runs, faults, settled, quiet, arg, ret, embedder, mentions, rag>>

\* flush(): a new event is enqueued and the caller waits on it; before is the
\* set of batches enqueued so far
FlushCall ==
    /\ Len(worker.flushes) < MaxFlushes
    /\ worker' = [worker EXCEPT
          !.queue = QueuePut(@, Event(Len(worker.flushes) + 1)),
          !.flushes = Append(@, [st |-> "waiting", before |-> worker.sent])]
    /\ UNCHANGED <<disk, store, run, units, runs, faults, settled, quiet, arg, ret, embedder, mentions, rag>>

\* done.wait() returns once the event is set
FlushReturn(k) ==
    /\ worker.flushes[k].st = "set"
    /\ worker' = [worker EXCEPT !.flushes[k].st = "returned"]
    /\ UNCHANGED <<disk, store, run, units, runs, faults, settled, quiet, arg, ret, embedder, mentions, rag>>

\* a turn of _drain on a batch: _upsert, then _write_manifest
FlushDrainBatch ==
    /\ worker.alive
    /\ worker.queue # <<>>
    /\ ~IsEvent(Head(worker.queue))
    /\ LET item == Head(worker.queue)
       IN  /\ store' = ChunkStoreUpsert(store, item.chunks)
           /\ worker' = [worker EXCEPT
                 !.queue = Tail(@),
                 !.worker_manifests =
                     [v \in DOMAIN @ \cup {item.worker_id} |->
                         IF v = item.worker_id THEN ManifestEntries(item.work) ELSE @[v]]]
    /\ UNCHANGED <<disk, run, units, runs, faults, settled, quiet, arg, ret, embedder, mentions, rag>>

\* a turn of _drain on an event: item.set()
FlushDrainEvent ==
    /\ worker.alive
    /\ worker.queue # <<>>
    /\ IsEvent(Head(worker.queue))
    /\ worker' = [worker EXCEPT !.queue = Tail(@),
                                !.flushes[Head(worker.queue).event].st = "set"]
    /\ UNCHANGED <<disk, store, run, units, runs, faults, settled, quiet, arg, ret, embedder, mentions, rag>>

\* collection.upsert raises in _upsert: _drain has no handler, the exception
\* ends the drain thread.  The batches of this directory have one sub-batch,
\* so no row of the batch is stored.
FlushDrainUpsertRaises ==
    /\ worker.alive
    /\ worker.queue # <<>>
    /\ ~IsEvent(Head(worker.queue))
    /\ Head(worker.queue).chunks # <<>>
    /\ faults < MaxFaults
    /\ worker' = [worker EXCEPT !.queue = Tail(@), !.alive = FALSE]
    /\ faults' = faults + 1
    /\ UNCHANGED <<disk, store, run, units, runs, settled, quiet, arg, ret, embedder, mentions, rag>>

\* _write_manifest raises after the upsert: the drain thread ends as well
FlushDrainWriteRaises ==
    /\ worker.alive
    /\ worker.queue # <<>>
    /\ ~IsEvent(Head(worker.queue))
    /\ faults < MaxFaults
    /\ store' = ChunkStoreUpsert(store, Head(worker.queue).chunks)
    /\ worker' = [worker EXCEPT !.queue = Tail(@), !.alive = FALSE]
    /\ faults' = faults + 1
    /\ UNCHANGED <<disk, run, units, runs, settled, quiet, arg, ret, embedder, mentions, rag>>

NextFlush ==
    \/ \E w \in 0..(Len(WorkerBatches) - 1) : FlushWorkerReceive(w)
    \/ FlushCall
    \/ \E k \in 1..Len(worker.flushes) : FlushReturn(k)
    \/ FlushDrainBatch
    \/ FlushDrainEvent
    \/ FlushDrainUpsertRaises
    \/ FlushDrainWriteRaises

SpecFlush == InitWorker /\ [][NextFlush]_vars

\* a turn of the drain loop of the flush worker
FlushDrainTurn ==
    FlushDrainBatch \/ FlushDrainEvent \/ FlushDrainUpsertRaises \/ FlushDrainWriteRaises

\* the drain thread loops as long as it lives, and a caller whose event is
\* set returns from wait()
SpecFlushLive ==
    /\ InitWorker
    /\ [][NextFlush]_vars
    /\ WF_vars(FlushDrainTurn)
    /\ WF_vars(\E k \in 1..Len(worker.flushes) : FlushReturn(k))

-----------------------------------------------------------------------------
(* UpsertWorker.reset of agents/index_pipeline *)

MainManifest == <<"manifest", ".json">>

\* files of the store directory: the manifests and one file of the store
StoreDirNames ==
    {MainManifest, <<"manifest", "-worker-0", ".json">>,
     <<"manifest", "-worker-1", ".json">>, <<"chroma", ".sqlite3">>}

\* the glob manifest*.json
IsManifestFile(name) == name[1] = "manifest" /\ name[Len(name)] = ".json"

\* client.delete_collection: raises when there is no such collection
DeleteCollection(coll) ==
    IF coll.exists
    THEN [raised |-> FALSE, coll |-> [exists |-> FALSE, rows |-> {}]]
    ELSE [raised |-> TRUE, coll |-> coll]

\* client.get_or_create_collection
GetOrCreateCollection(coll) ==
    IF coll.exists THEN coll ELSE [exists |-> TRUE, rows |-> {}]

\* a reset that only asks for the collection again
ChunkStoreResetNoDelete(coll) == GetOrCreateCollection(coll)

\* ChunkStore.reset: the exception of delete_collection is swallowed
ChunkStoreReset(coll) == GetOrCreateCollection(DeleteCollection(coll).coll)

\* Manifest.clear: unlink every file matching manifest*.json
ManifestClear(files) ==
    [name \in {n \in DOMAIN files : ~IsManifestFile(n)} |-> files[name]]

\* Manifest._read of the main manifest: {} when the file is not there
ManifestRead(files) ==
    IF MainManifest \in DOMAIN files THEN files[MainManifest] ELSE <<>>

\* UpsertWorker.reset
WorkerReset(coll, files) == [coll |-> ChunkStoreReset(coll), files |-> ManifestClear(files)]

ResetRows ==
    {[id |-> <<1, 0, k>>, vector |-> Vec(k), text |-> k, source |-> ATxt,
      fingerprint |-> <<1, 1>>, filename |-> None] : k \in 1..2}

ResetCollections ==
    {[exists |-> FALSE, rows |-> {}]} \cup {[exists |-> TRUE, rows |-> R] : R \in SUBSET ResetRows}

ResetStoreDirs ==
    UNION {[S -> {<<>>, [n \in {ATxt} |-> <<1, 1>>]}] : S \in SUBSET StoreDirNames}

InitReset ==
    /\ Idle
    /\ arg \in [coll : ResetCollections, files : ResetStoreDirs, dir : ScanDirs]
    /\ ret = None

\* reset() and then the scan of the docs directory against what is recorded
ResetApply ==
    /\ ret = None
    /\ LET after == WorkerReset(arg.coll, arg.files)
       IN  ret' = [coll |-> after.coll, files |-> after.files,
                   scan |-> Scan(TRUE, arg.dir, ManifestRead(after.files))]
    /\ UNCHANGED <<pipeline, arg>>

SpecReset == InitReset /\ [][ResetApply]_vars

-----------------------------------------------------------------------------
(* Manifest.merge of agents/index_pipeline *)

\* str(worker_id): the decimal digits
RECURSIVE Digits(_)
Digits(n) == IF n < 10 THEN <<n>> ELSE Digits(n \div 10) \o <<n % 10>>

\* f"manifest-worker-{worker_id}.json"
WorkerFile(id) == <<"manifest", "-worker-", id, ".json">>

\* the glob manifest-worker-*.json
IsWorkerFile(name) == Len(name) = 4 /\ name[1] = "manifest" /\ name[2] = "-worker-"

\* the characters of a worker file name after manifest-worker-, as code
\* points: the digits and the dot of .json
NameTail(name) == [i \in 1..Len(Digits(name[3])) |-> 48 + Digits(name[3])[i]] \o <<46>>

\* comparison of strings, character by character
RECURSIVE StrLess(_, _)
StrLess(a, b) ==
    IF b = <<>> THEN FALSE
    ELSE IF a = <<>> THEN TRUE
    ELSE IF Head(a) # Head(b) THEN Head(a) < Head(b)
    ELSE StrLess(Tail(a), Tail(b))

\* worker files taken in the order of their worker ids
RECURSIVE SortedById(_)
SortedById(S) ==
    IF S = {} THEN <<>>
    ELSE LET m == CHOOSE x \in S : \A y \in S : x[3] <= y[3]
         IN  <<m>> \o SortedById(S \ {m})

\* sorted(self._dir.glob(_WORKER_GLOB)): ascending by file name
RECURSIVE SortedByName(_)
SortedByName(S) ==
    IF S = {} THEN <<>>
    ELSE LET m == CHOOSE x \in S : \A y \in S : y = x \/ StrLess(NameTail(x), NameTail(y))
         IN  <<m>> \o SortedByName(S \ {m})

\* the loop of merge: manifest.update(json.loads(wf.read_text()))
RECURSIVE MergeLoop(_, _, _)
MergeLoop(manifest, files, order) ==
    IF order = <<>> THEN manifest
    ELSE MergeLoop(DictUpdate(manifest, files[Head(order)]), files, Tail(order))

\* Manifest.merge on the files of the store directory: the worker files are
\* unlinked and the main manifest is written
ManifestMerge(files) ==
    LET wfs == {n \in DOMAIN files : IsWorkerFile(n)}
        manifest == MergeLoop(ManifestRead(files), files, SortedByName(wfs))
    IN  [n \in (DOMAIN files \ wfs) \cup {MainManifest} |->
            IF n = MainManifest THEN manifest ELSE files[n]]

\* worker ids of the manifests that are merged; a run has N_WORKERS *
\* WORKERS_PER_GPU work units at most
MergeWorkerIds == {1, 2, 10}

\* the manifests: file name -> fingerprint
MergeManifests ==
    UNION {[S -> {<<t, 1>> : t \in 1..MaxMtime}] : S \in SUBSET {ATxt, BZip}}

MergeStoreDirs ==
    UNION {[S -> MergeManifests] :
             S \in SUBSET ({MainManifest} \cup {WorkerFile(id) : id \in MergeWorkerIds})}

InitMerge ==
    /\ Idle
    /\ arg \in [files : MergeStoreDirs]
    /\ ret = None

\* merge() and merge() again
MergeApply ==
    /\ ret = None
    /\ ret' = [files |-> ManifestMerge(arg.files),
               again |-> ManifestMerge(ManifestMerge(arg.files))]
    /\ UNCHANGED <<pipeline, arg>>

SpecMerge == InitMerge /\ [][MergeApply]_vars

-----------------------------------------------------------------------------
(* Manifest.diff of agents/rag_agent/rag/indexer *)

\* a test that takes only the names old does not have
DiffChangedNewOnly(old, fname, fp) == fname \notin DOMAIN old

\* fname not in old or old[fname] != fp
DiffChanged(old, fname, fp) == fname \notin DOMAIN old \/ old[fname] # fp

\* the first loop of diff, over current.items() in the order of the dict
RECURSIVE DiffCurrent(_, _, _, _)
DiffCurrent(old, current, order, acc) ==
    IF order = <<>> THEN acc
    ELSE LET fname == Head(order)
             next == IF DiffChanged(old, fname, current[fname])
                     THEN [to_add |-> Append(acc.to_add, fname),
                           to_delete |-> IF fname \in DOMAIN old
                                         THEN acc.to_delete \cup {fname}
                                         ELSE acc.to_delete]
                     ELSE acc
         IN  DiffCurrent(old, current, Tail(order), next)

\* Manifest.diff: the second loop adds the names of old that current lacks
ManifestDiff(old, current, order) ==
    LET first == DiffCurrent(old, current, order, [to_add |-> <<>>, to_delete |-> {}])
    IN  [to_add |-> first.to_add,
         to_delete |-> first.to_delete \cup {fname \in DOMAIN old : fname \notin DOMAIN current}]

\* the manifests diff is applied to: file name -> fingerprint
DiffManifests ==
    UNION {[S -> {<<t, 1>> : t \in 1..MaxMtime}] : S \in SUBSET Range(FileNames)}

InitDiff ==
    /\ Idle
    /\ \E old \in DiffManifests : \E current \in DiffManifests :
         \E order \in Orderings(DOMAIN current) :
            arg = [old |-> old, current |-> current, order |-> order]
    /\ ret = None

DiffApply ==
    /\ ret = None
    /\ ret' = ManifestDiff(arg.old, arg.current, arg.order)
    /\ UNCHANGED <<pipeline, arg>>

SpecDiff == InitDiff /\ [][DiffApply]_vars

-----------------------------------------------------------------------------
(* chunk_message of agents/slackbot.py; a text is a sequence of characters *)

NL == "\n"

Chars == {"a", "b", NL}

\* text[i:] and text[:i] with 0 <= i
SliceFrom(text, i) == SubSeq(text, Min(i, Len(text)) + 1, Len(text))

SliceTo(text, i) == SubSeq(text, 1, Min(i, Len(text)))

\* text.rfind("\n", 0, limit): the last index below limit, counted from 0,
\* that holds a newline, or -1
RFind(text, limit) ==
    LET found == {i \in 0..(Min(limit, Len(text)) - 1) : text[i + 1] = NL}
    IN  IF found = {} THEN -1 ELSE CHOOSE i \in found : \A j \in found : j <= i

\* text.lstrip("\n")
RECURSIVE LStrip(_)
LStrip(text) ==
    IF text # <<>> /\ Head(text) = NL THEN LStrip(Tail(text)) ELSE text

\* a split one character beyond the limit when there is no newline
SplitAtLong(text, limit) ==
    IF RFind(text, limit) = -1 THEN limit + 1 ELSE RFind(text, limit)

\* split_at of one turn of the loop
SplitAt(text, limit) ==
    IF RFind(text, limit) = -1 THEN limit ELSE RFind(text, limit)

InitChunkMessage ==
    /\ Idle
    /\ arg \in [text : UNION {[1..n -> Chars] : n \in 0..MaxTextLen}, limit : 1..MaxLimit]
    /\ ret = None

\* the call: a text within the limit is returned as it is
ChunkMessageCall ==
    /\ ret = None
    /\ ret' = IF Len(arg.text) <= arg.limit
              THEN [pc |-> "returned", text |-> arg.text, chunks |-> <<arg.text>>]
              ELSE [pc |-> "loop", text |-> arg.text, chunks |-> <<>>]
    /\ UNCHANGED <<pipeline, arg>>

\* one turn of while text
ChunkMessageTurn ==
    /\ ret # None
    /\ ret.pc = "loop"
    /\ ret' = IF ret.text = <<>>
              THEN [ret EXCEPT !.pc = "returned"]
              ELSE IF Len(ret.text) <= arg.limit
              THEN [pc |-> "returned", text |-> ret.text, chunks |-> Append(ret.chunks, ret.text)]
              ELSE [pc |-> "loop",
                    text |-> LStrip(SliceFrom(ret.text, SplitAt(ret.text, arg.limit))),
                    chunks |-> Append(ret.chunks, SliceTo(ret.text, SplitAt(ret.text, arg.limit)))]
    /\ UNCHANGED <<pipeline, arg>>

NextChunkMessage == ChunkMessageCall \/ ChunkMessageTurn

\* the function runs on once it is called
SpecChunkMessage ==
    InitChunkMessage /\ [][NextChunkMessage]_vars /\ WF_vars(NextChunkMessage)

-----------------------------------------------------------------------------
(* An EmbedWorker container and the driver of its TEI sidecar.  The driver  *)
(* (tei_server/server.py) has the states stopped, starting, ready, degraded *)

others == <<disk, store, run, units, runs, faults, settled, quiet, arg, ret, worker, mentions, rag>>

\* modal.enter: _setup creates the driver and calls start(), which spawns the
\* sidecar process
SetupEnter ==
    /\ embedder.pc = "new"
    /\ embedder' = [embedder EXCEPT !.pc = "setup", !.tei = "starting", !.spawns = @ + 1]
    /\ UNCHANGED others

\* the readiness probe of start() succeeds
ProbeSucceed ==
    /\ embedder.pc = "setup"
    /\ embedder.tei = "starting"
    /\ embedder' = [embedder EXCEPT !.tei = "ready", !.probed = TRUE]
    /\ UNCHANGED others

\* the probe times out or the process exits: start() raises and the container
\* fails in modal.enter
ProbeFail ==
    /\ embedder.pc = "setup"
    /\ embedder.tei = "starting"
    /\ embedder' = [embedder EXCEPT !.tei = "stopped", !.pc = "failed"]
    /\ UNCHANGED others

\* a start() that returns as soon as the process is spawned
SetupReturnEarly ==
    /\ embedder.pc = "setup"
    /\ embedder.tei \in {"starting", "ready"}
    /\ embedder' = [embedder EXCEPT !.pc = "serving"]
    /\ UNCHANGED others

\* start() has returned; _setup creates splitter, parser and HTTP client and
\* the container takes embed() calls
SetupReturn ==
    /\ embedder.pc = "setup"
    /\ embedder.tei = "ready"
    /\ embedder' = [embedder EXCEPT !.pc = "serving"]
    /\ UNCHANGED others

\* a POST /embed of _embed_texts is answered 2xx
EmbedRequestOk ==
    /\ embedder.pc = "serving"
    /\ embedder.tei \in {"ready", "degraded"}
    /\ embedder.requests < MaxRequests
    /\ embedder' = [embedder EXCEPT !.requests = @ + 1, !.failures = 0]
    /\ UNCHANGED others

\* a driver that spawns the sidecar again when a request finds it stopped
EmbedRequestFailRestart ==
    /\ embedder.pc = "serving"
    /\ embedder.requests < MaxRequests
    /\ embedder' =
          IF embedder.tei = "stopped"
          THEN [embedder EXCEPT !.requests = @ + 1, !.tei = "starting", !.spawns = @ + 1]
          ELSE [embedder EXCEPT !.requests = @ + 1, !.failures = @ + 1,
                  !.tei = IF embedder.failures + 1 >= MaxTeiFailures
                          THEN "stopped" ELSE "degraded"]
    /\ UNCHANGED others

\* a POST /embed fails: with the process alive the driver is degraded, and
\* stopped at the fixed number of consecutive failures; raise_for_status raises
EmbedRequestFail ==
    /\ embedder.pc = "serving"
    /\ embedder.requests < MaxRequests
    /\ embedder' =
          IF embedder.tei = "stopped"
          THEN [embedder EXCEPT !.requests = @ + 1]
          ELSE [embedder EXCEPT !.requests = @ + 1, !.failures = @ + 1,
                  !.tei = IF embedder.failures + 1 >= MaxTeiFailures
                          THEN "stopped" ELSE "degraded"]
    /\ UNCHANGED others

\* the sidecar process exits
ProcessExit ==
    /\ embedder.pc = "serving"
    /\ embedder.tei \in {"ready", "degraded"}
    /\ embedder' = [embedder EXCEPT !.tei = "stopped"]
    /\ UNCHANGED others

\* the platform replaces the container by a new one
ContainerRecreate ==
    /\ embedder.pc \in {"serving", "failed"}
    /\ embedder.container < MaxContainers
    /\ embedder' = EmbedderNew(embedder.container + 1)
    /\ UNCHANGED others

InitEmbedder == Idle /\ arg = None /\ ret = None

NextEmbedder ==
    \/ SetupEnter
    \/ ProbeSucceed
    \/ ProbeFail
    \/ SetupReturn
    \/ EmbedRequestOk
    \/ EmbedRequestFail
    \/ ProcessExit
    \/ ContainerRecreate

SpecEmbedder == InitEmbedder /\ [][NextEmbedder]_vars

-----------------------------------------------------------------------------
(* What a run did, read off the state of its work units *)

UnitIds == 1..Len(units)

\* number of embed() calls of the run that were entered
EmbedCalls == Cardinality({u \in UnitIds : units[u].st # "pending"})

\* number of collection.upsert calls one unit issued
CallsOf(u) ==
    (units[u].pos \div UPSERT_BATCH)
    + (IF units[u].st \in {"incall", "upsertfailed"} THEN 1 ELSE 0)

\* number of collection.upsert calls of the run
UpsertCalls == SumSeq([u \in UnitIds |-> CallsOf(u)])

\* the chunks the embed calls of the run emitted for a source file
Produced(f) ==
    UNION {{c \in Range(units[u].chunks) : c.source = f} : u \in UnitIds}

RowsOf(f) == {r \in store : r.source = f}

RunEnded == run.pc \in {"ok", "error"}

\* no upsert call of the run is still executing in the worker
NoCallUnderWay == \A u \in UnitIds : units[u].st \notin {"incall", "between"}

NoChanges == <<"no changes">>

\* the calls of the run executed one after another in the given order
RECURSIVE SerialUpserts(_, _)
SerialUpserts(rows, order) ==
    IF order = <<>> THEN rows
    ELSE SerialUpserts(ChunkStoreUpsert(rows, units[order[1]].chunks), Tail(order))

-----------------------------------------------------------------------------
(* Claims on the pipeline *)

\* C1: after index() returns successfully all rows of one source carry one
\* fingerprint, and a file re-indexed by the run has exactly the rows the run
\* produced for it.
C1_OneGenerationPerSource ==
    run.pc = "ok" =>
        /\ \A r1 \in store : \A r2 \in store :
              r1.source = r2.source => r1.fingerprint = r2.fingerprint
        /\ \A f \in Range(run.files) : RowsOf(f) = Produced(f)

\* C2: when a run has ended, in success or in error, the chunks produced for
\* a file of the run are all in the store or none of them is.
C2_AllOrNothingPerFile ==
    (RunEnded /\ NoCallUnderWay) =>
        \A f \in Range(run.files) :
            Produced(f) \subseteq store \/ Produced(f) \cap store = {}

\* C4: an index() that follows a successful index() on an unchanged docs
\* directory issues no collection.upsert call.
C4_RerunWritesNothing ==
    run.quiet0 => UpsertCalls = 0

\* C5: a file a successful run handled and that was not changed since is not
\* returned by the scan of a later run.
C5_SettledNotRescanned ==
    run.pc = "fanout" => Range(run.files) \cap settled = {}

\* C6: at most one collection.upsert call is executing at any moment.
C6_SingleWriter ==
    Cardinality(InFlight) <= 1

\* C7: when all upsert calls of a run have returned, the store holds what the
\* same calls executed one after another, in some order, leave in it.
C7_Serializable ==
    run.pc = "ok" =>
        \E order \in Orderings(UnitIds) : store = SerialUpserts(run.store0, order)

\* C7 witness: a run ended whose collection.upsert calls of different upsert
\* invocations were interleaved, two invocations having several sub-batches.
C7_Witness ==
    /\ run.pc = "ok"
    /\ run.overlap
    /\ Cardinality({u \in UnitIds : Len(units[u].chunks) > UPSERT_BATCH}) >= 2

\* C10: when scan() returns no file, index() returns the "no changes" summary,
\* calls neither embed nor upsert and leaves the row count as it was.
C10_NoChangesSummary ==
    (run.pc = "ok" /\ run.files = <<>>) =>
        /\ run.summary = NoChanges
        /\ EmbedCalls = 0
        /\ UpsertCalls = 0
        /\ Cardinality(store) = Cardinality(run.store0)

\* the frame part of C10 alone
C10_NoCallsNoRows ==
    (run.pc = "ok" /\ run.files = <<>>) =>
        /\ run.summary = Summary(0)
        /\ EmbedCalls = 0
        /\ UpsertCalls = 0
        /\ store = run.store0

\* the splitter nodes of the work units of the run
NodesOf(u) == GetNodes(Parse(disk, units[u].work))

\* number of UpsertWorker.upsert invocations entered with the result of unit u
UpsertInvocations(u) ==
    IF units[u].st \in {"incall", "between", "done", "upsertfailed"} THEN 1 ELSE 0

\* C11: on a successful run the N of "Indexed N passages." is the number of
\* chunks the embed calls emitted (one per splitter node), every embed result
\* went to one upsert invocation, and the store has N rows more than before.
C11_SummaryCountsRows ==
    run.pc = "ok" =>
        LET total == SumSeq([u \in UnitIds |-> Len(NodesOf(u))])
        IN  /\ run.summary = Summary(total)
            /\ total = SumSeq([u \in UnitIds |-> Len(units[u].chunks)])
            /\ \A u \in UnitIds : UpsertInvocations(u) = 1
            /\ Cardinality(store) = Cardinality(run.store0) + total

\* C13: after a successful index() a lookup by the id of any chunk an embed
\* call of the run emitted returns exactly the text, vector and metadata of
\* that chunk, and the chunk was sent in exactly one collection.upsert call,
\* also when its batch went out in several sub-batches.
C13_LookupReturnsChunk ==
    run.pc = "ok" =>
        \A u \in UnitIds : \A k \in 1..Len(units[u].chunks) :
            LET c == units[u].chunks[k]
            IN  /\ Lookup(store, c.id) =
                      {[text |-> c.text, vector |-> c.vector, metadata |-> Metadata(c)]}
                /\ Cardinality({j \in 0..(CallsOf(u) - 1) :
                        c \in Range(SubBatch(units[u].chunks, j * UPSERT_BATCH))}) = 1

\* C13 witness: a successful run with a batch sent in a full sub-batch and a
\* shorter last one, whose last chunk is found in the store under its id.
C13_Witness ==
    /\ run.pc = "ok"
    /\ \E u \in UnitIds :
          /\ Len(units[u].chunks) > UPSERT_BATCH
          /\ Len(units[u].chunks) % UPSERT_BATCH # 0
          /\ CallsOf(u) >= 2
          /\ Lookup(store, units[u].chunks[Len(units[u].chunks)].id) # {}

\* the rows of the store that carry an id of unit u of the current run
UnitRows(u) == {r \in store : r.id[1] = runs /\ r.id[2] = units[u].worker_id}

\* C14: a work unit one of whose /embed requests was answered non-2xx emits
\* no chunks, no row of the unit is in the store, now or later, and index()
\* does not end with a success summary but with the error.
C14_FailedEmbedWritesNothing ==
    \A u \in UnitIds :
        units[u].st = "embedfailed" =>
            /\ units[u].chunks = <<>>
            /\ UnitRows(u) = {}
            /\ run.pc \in {"fanout", "error"}
            /\ run.summary = None

\* C14 witness: index() ended in error after the /embed failure of a unit
\* that has nodes, while rows of another unit of the run are in the store.
C14_Witness ==
    /\ run.pc = "error"
    /\ store # {}
    /\ \E u \in UnitIds :
          /\ units[u].st = "embedfailed"
          /\ Len(NodesOf(u)) >= 2
          /\ UnitRows(u) = {}

\* the chunks embed() emits for unit u when its requests are answered 2xx
Emitted(u) == Range(ChunkAndEmbed(NodesOf(u), runs, units[u].worker_id))

\* C15: when index() has reported the error of a failed embed call, the chunks
\* of every other work unit of the run are in the store.
C15_OtherUnitsWritten ==
    (run.pc = "error" /\ \E u \in UnitIds : units[u].st = "embedfailed") =>
        \A v \in UnitIds : units[v].st # "embedfailed" => Emitted(v) \subseteq store

\* the chunks the run has to store for a source file: what its embed calls
\* emit for the file when they are answered
ChunksOf(f) == UNION {{c \in Emitted(u) : c.source = f} : u \in UnitIds}

\* C26: after an index() run that ended in error, every file of the run with
\* a chunk missing from the store is returned by the next scan(), whatever
\* order the store returns its metadata in.
C26_IncompleteFileRescanned ==
    (run.pc = "error" /\ NoCallUnderWay) =>
        \A f \in Range(run.files) :
            ~(ChunksOf(f) \subseteq store) =>
                \A order \in MetadataOrders(store) :
                    f \in Range(Scan(TRUE, disk, GetIndexedFiles(order)))

\* the threads that are inside index()
Indexing == {t \in DOMAIN mentions : mentions[t].pc = "fanout"}

\* C27: at most one index() run is active at a time when two file-upload
\* mentions are handled concurrently, and no chunk of a file is stored twice
\* (two rows of one source, entry, fingerprint and text under different ids).
C27_OneIndexAtATime ==
    /\ Cardinality(Indexing) <= 1
    /\ \A r1 \in store : \A r2 \in store :
          (r1.source = r2.source /\ r1.filename = r2.filename
           /\ r1.fingerprint = r2.fingerprint /\ r1.text = r2.text)
              => r1.id = r2.id

\* the consequence named by C27 alone: no chunk of a file is stored twice
C27_NoChunkStoredTwice ==
    \A r1 \in store : \A r2 \in store :
        (r1.source = r2.source /\ r1.filename = r2.filename
           /\ r1.fingerprint = r2.fingerprint /\ r1.text = r2.text)
            => r1.id = r2.id

\* C28: for the rows the store holds, get_indexed_files() returns one map
\* whatever order the store returns the metadata in, and every source with a
\* chunk that has both fields is in the map with a fingerprint of one of its
\* chunks.
C28_IndexedFilesOrderFree ==
    \A o1 \in MetadataOrders(store) :
        /\ \A o2 \in MetadataOrders(store) : GetIndexedFiles(o1) = GetIndexedFiles(o2)
        /\ \A r \in store :
              (r.source # None /\ r.fingerprint # None) =>
                  /\ r.source \in DOMAIN GetIndexedFiles(o1)
                  /\ \E q \in RowsOf(r.source) :
                        GetIndexedFiles(o1)[r.source] = q.fingerprint

\* the second part of C28 alone: every source is in the map, with a
\* fingerprint of one of its chunks
C28_IndexedFilesCarried ==
    \A o1 \in MetadataOrders(store) :
        \A r \in store :
            (r.source # None /\ r.fingerprint # None) =>
                /\ r.source \in DOMAIN GetIndexedFiles(o1)
                /\ \E q \in RowsOf(r.source) :
                      GetIndexedFiles(o1)[r.source] = q.fingerprint

\* the lines the server printed while it handled request r, in order
LinesOf(r) == SelectSeq(rag.log, LAMBDA l : l.req = r)

\* the requests whose END_TURN the server has printed
Served == {r \in RagCallers : \E i \in 1..Len(rag.log) : rag.log[i] = Line(r, END_TURN)}

EndTurnLines(r) == {i \in 1..Len(LinesOf(r)) : HasEndTurn(LinesOf(r)[i].text)}

\* C29: for every request it has handled, raising or not, the server has
\* written exactly one line that ends the turn, after all output of the
\* request, and every caller of run_rag_query that has returned got exactly
\* the output lines of its own request.
C29_OneEndTurnOwnLines ==
    /\ \A r \in Served : EndTurnLines(r) = {Len(LinesOf(r))}
    /\ \A c \in RagCallers :
          rag.callers[c].pc = "returned" =>
              /\ c \in Served
              /\ rag.callers[c].lines = SubSeq(LinesOf(c), 1, Len(LinesOf(c)) - 1)

\* no line of output contains the sentinel
SentinelFree ==
    \A i \in 1..Len(rag.log) : HasEndTurn(rag.log[i].text) => rag.log[i].text = END_TURN

\* C29 for output that does not contain the sentinel
C29_SentinelFreeOwnLines ==
    SentinelFree => C29_OneEndTurnOwnLines

\* two callers have returned, the request of one was answered after handle()
\* raised, and no output contained the sentinel
C29_SentinelFreeReached ==
    /\ SentinelFree
    /\ \A c \in RagCallers : rag.callers[c].pc = "returned" /\ Len(rag.callers[c].lines) >= 1
    /\ \E i \in 1..Len(rag.log) : rag.log[i].text = ErrorText

\* begin(n) was called and the n receive() calls were made, and the drain
\* thread has taken every batch
AllReceivedAndTaken ==
    /\ worker.expected > 0
    /\ Cardinality(worker.sent) = worker.expected
    /\ worker.queue = <<>>

\* C30: after begin(n) and exactly n receive() calls the drain thread runs
\* _finalize exactly once, not before all n batches are upserted and their
\* worker manifests written, and not a second time.
C30_FinalizeExactlyOnce ==
    /\ worker.finalized <= 1
    /\ worker.finalized = 1 =>
          /\ \A w \in 0..(worker.expected - 1) : Range(Received(w).chunks) \subseteq store
          /\ \A w \in 0..(worker.expected - 1) :
                \A name \in DOMAIN ManifestEntries(Received(w).work) :
                    name \in DOMAIN worker.manifest
    /\ AllReceivedAndTaken => worker.finalized = 1

\* the part of C30 on when _finalize runs: not twice and not before all
\* batches are upserted and their worker manifests written
C30_FinalizeNotEarlyNotTwice ==
    /\ worker.finalized <= 1
    /\ worker.finalized = 1 =>
          /\ AllReceivedAndTaken
          /\ \A w \in 0..(worker.expected - 1) : Range(Received(w).chunks) \subseteq store
          /\ \A w \in 0..(worker.expected - 1) :
                \A name \in DOMAIN ManifestEntries(Received(w).work) :
                    name \in DOMAIN worker.manifest

\* C30 for runs in which no turn of the drain loop raises
C30_FinalizeOnceNoRaise ==
    faults = 0 => C30_FinalizeExactlyOnce

\* all batches of a run of four were taken without a raise and _finalize ran
C30_NoRaiseReached ==
    /\ faults = 0
    /\ AllReceivedAndTaken
    /\ worker.expected >= 2
    /\ worker.finalized = 1

\* C31: after begin(n) and n receive() calls _finalize eventually runs, also
\* when the upsert or the manifest write of one of the batches raised.
C31_FinalizeEventually ==
    (worker.expected > 0 /\ Cardinality(worker.sent) = worker.expected)
        ~> (worker.finalized >= 1)

\* C31 for the runs in which no turn of the drain loop raises
C31_FinalizeEventuallyNoRaise ==
    (worker.expected > 0 /\ Cardinality(worker.sent) = worker.expected)
        ~> (worker.finalized >= 1 \/ faults > 0)

\* C32: when a flush() call has returned, every batch receive() enqueued
\* before it is upserted and its worker manifest written.
C32_FlushAfterEarlierBatches ==
    \A k \in 1..Len(worker.flushes) :
        worker.flushes[k].st = "returned" =>
            \A w \in worker.flushes[k].before :
                /\ Range(Received(w).chunks) \subseteq store
                /\ w \in DOMAIN worker.worker_manifests
                /\ worker.worker_manifests[w] = ManifestEntries(Received(w).work)

\* C32 witness: a flush() that was called after two batches were enqueued has
\* returned while a batch enqueued after it still waits in the queue.
C32_Witness ==
    \E k \in 1..Len(worker.flushes) :
        /\ worker.flushes[k].st = "returned"
        /\ Cardinality(worker.flushes[k].before) >= 2
        /\ \E i \in 1..Len(worker.queue) : ~IsEvent(worker.queue[i])

\* the k-th flush() call was made and has returned
FlushReturned(k) == Len(worker.flushes) >= k /\ worker.flushes[k].st = "returned"

\* C33: every flush() call eventually returns, also when the upsert or the
\* manifest write of a batch enqueued before it raised.
C33_FlushReturns ==
    \A k \in 1..MaxFlushes :
        (Len(worker.flushes) >= k) ~> FlushReturned(k)

\* C33 for the runs in which no turn of the drain loop raises
C33_FlushReturnsNoRaise ==
    \A k \in 1..MaxFlushes :
        (Len(worker.flushes) >= k) ~> (FlushReturned(k) \/ faults > 0)

\* number of collection.upsert calls of unit u the store rejected: the loop of
\* ChunkStore.upsert has no handler, the first rejection ends it
Rejections(u) == IF units[u].st = "upsertfailed" THEN 1 ELSE 0

\* C16: an upsert() invocation fails only when a sub-batch was rejected again
\* on a retry; a single rejection does not fail it.
C16_RetriedBeforeFailing ==
    \A u \in UnitIds : units[u].st = "upsertfailed" => Rejections(u) >= 2

\* C18: every row of the store has a source and a fingerprint that are not
\* empty; the source is a file of the docs directory, the archive for a row of
\* an archive entry, and while the run that wrote the row is under way the
\* fingerprint is the (mtime_ns, size) of that file.
C18_SourceAndFingerprint ==
    \A r \in store :
        /\ r.source # None
        /\ r.fingerprint # None
        /\ Len(r.fingerprint) = 2
        /\ r.source \in DOMAIN disk
        /\ disk[r.source].kind = "file"
        /\ r.filename # None =>
              (IsZip(r.source) /\ r.filename \in Range(NameLists[r.source]))
        /\ r.filename = None => ~IsZip(r.source)
        /\ (run.pc = "fanout" /\ r.id[1] = runs) =>
              r.fingerprint = <<disk[r.source].mtime, disk[r.source].size>>

\* C18 witness: in a second run, after the files were touched, a row of the
\* loose file and a row of an archive entry are written with the new mtime.
C18_Witness ==
    /\ run.pc = "fanout"
    /\ runs = 2
    /\ \E r \in store : r.id[1] = 2 /\ r.filename = None /\ r.fingerprint[1] = 2
    /\ \E r \in store : r.id[1] = 2 /\ r.filename # None /\ r.fingerprint[1] = 2

\* C20: the number of batches received and not yet taken by the drain thread
\* never exceeds the capacity of the hand-off queue.
C20_HandoffBounded ==
    Len(worker.queue) <= HandoffBound

\* C21: when a cancelled index() has returned and no upsert call is under
\* way any more, every batch whose embed call had completed is in the store,
\* and the run ended without a summary.
C21_CancelDrainsEmbedded ==
    (run.pc = "cancelled" /\ NoCallUnderWay) =>
        /\ run.summary = None
        /\ \A u \in UnitIds :
              units[u].st # "pending" => Range(units[u].chunks) \subseteq store

\* C11 witness: a second successful run that added rows to a store that had
\* rows, from several embed calls, one of them sent in several sub-batches.
C11_Witness ==
    /\ run.pc = "ok"
    /\ run.store0 # {}
    /\ Len(units) >= 2
    /\ \E u \in UnitIds : Len(units[u].chunks) > UPSERT_BATCH
    /\ Cardinality(store) > Cardinality(run.store0)

-----------------------------------------------------------------------------
(* Claims on the EmbedWorker container and its sidecar *)

\* C23: a container sends /embed requests and takes embed() calls only after
\* the readiness probe of its own sidecar has succeeded.
C23_NoRequestBeforeReady ==
    (embedder.requests > 0 \/ embedder.pc = "serving") => embedder.probed

\* C23 witness: the second container, created after the first failed in
\* start(), has sent a request after its probe succeeded.
C23_Witness ==
    /\ embedder.container = 2
    /\ embedder.requests > 0
    /\ embedder.probed
    /\ embedder.spawns = 1

-----------------------------------------------------------------------------
(* Claims on the functions *)

WorkerFilesWith(files, key) ==
    {n \in DOMAIN files : IsWorkerFile(n) /\ key \in DOMAIN files[n]}

\* the one of them that is last in the order of the file names
LastByName(S) == CHOOSE x \in S : \A y \in S : y = x \/ StrLess(NameTail(y), NameTail(x))

\* C34: after merge() the main manifest is the previous one updated with the
\* worker manifests in the order of their file names (for a key of several
\* worker files the last file wins), no worker file remains, and a second
\* merge() leaves the main manifest as it is.
C34_MergeSortedLastWins ==
    ret # None =>
        LET old == ManifestRead(arg.files)
            new == ret.files[MainManifest]
            wfs == {n \in DOMAIN arg.files : IsWorkerFile(n)}
        IN  /\ DOMAIN new = DOMAIN old \cup UNION {DOMAIN arg.files[n] : n \in wfs}
            /\ \A key \in DOMAIN new :
                  new[key] = IF WorkerFilesWith(arg.files, key) = {} THEN old[key]
                             ELSE arg.files[LastByName(WorkerFilesWith(arg.files, key))][key]
            /\ \A n \in DOMAIN ret.files : ~IsWorkerFile(n)
            /\ ret.again = ret.files

\* C34 witness: the manifests of workers 2 and 10 have different fingerprints
\* for a file the main manifest knows with another one than worker 2; the
\* file name of worker 2 sorts last, so its fingerprint is the one kept.
C34_Witness ==
    /\ ret # None
    /\ MainManifest \in DOMAIN arg.files
    /\ WorkerFile(2) \in DOMAIN arg.files
    /\ WorkerFile(10) \in DOMAIN arg.files
    /\ ATxt \in DOMAIN arg.files[MainManifest]
    /\ ATxt \in DOMAIN arg.files[WorkerFile(2)]
    /\ ATxt \in DOMAIN arg.files[WorkerFile(10)]
    /\ arg.files[WorkerFile(2)][ATxt] # arg.files[WorkerFile(10)][ATxt]
    /\ arg.files[MainManifest][ATxt] # arg.files[WorkerFile(2)][ATxt]
    /\ ret.files[MainManifest][ATxt] = arg.files[WorkerFile(2)][ATxt]

\* C35: diff(old, current) returns as to_add the names of current that old
\* lacks or has with another fingerprint, each once, and as to_delete the
\* names of old that current lacks or has with another fingerprint; a name
\* with one fingerprint in both is in neither, and diff(m, m) is empty.
C35_DiffExact ==
    ret # None =>
        LET old == arg.old
            current == arg.current
            changed == {n \in DOMAIN old \cap DOMAIN current : old[n] # current[n]}
        IN  /\ Range(ret.to_add) = (DOMAIN current \ DOMAIN old) \cup changed
            /\ Len(ret.to_add) = Cardinality(Range(ret.to_add))
            /\ ret.to_delete = (DOMAIN old \ DOMAIN current) \cup changed
            /\ \A n \in DOMAIN old \cap DOMAIN current :
                  old[n] = current[n] => n \notin Range(ret.to_add) \cup ret.to_delete
            /\ old = current => (ret.to_add = <<>> /\ ret.to_delete = {})

\* C35 witness: a diff with a changed file, in to_add and in to_delete, a new
\* file and an unchanged file.
C35_Witness ==
    /\ ret # None
    /\ \E n \in DOMAIN arg.old \cap DOMAIN arg.current :
          arg.old[n] # arg.current[n] /\ n \in Range(ret.to_add) /\ n \in ret.to_delete
    /\ \E n \in DOMAIN arg.current \ DOMAIN arg.old : n \in Range(ret.to_add)
    /\ \E n \in DOMAIN arg.old \cap DOMAIN arg.current :
          arg.old[n] = arg.current[n] /\ n \notin Range(ret.to_add)

\* C35 witness of the diff of a manifest with itself
C35_WitnessSame ==
    /\ ret # None
    /\ arg.old = arg.current
    /\ Cardinality(DOMAIN arg.old) >= 2
    /\ ret.to_add = <<>>

\* the text is the chunks in order with nothing but newlines left out after
\* each of them
RECURSIVE Rebuilds(_, _)
Rebuilds(text, chunks) ==
    IF chunks = <<>> THEN text = <<>>
    ELSE /\ Len(Head(chunks)) <= Len(text)
         /\ SliceTo(text, Len(Head(chunks))) = Head(chunks)
         /\ \E k \in 0..(Len(text) - Len(Head(chunks))) :
               /\ \A i \in 1..k : text[Len(Head(chunks)) + i] = NL
               /\ Rebuilds(SliceFrom(text, Len(Head(chunks)) + k), Tail(chunks))

ChunkMessageReturned == ret # None /\ ret.pc = "returned"

\* what chunk_message has returned
ChunkMessageResult ==
    ChunkMessageReturned =>
        /\ \A i \in 1..Len(ret.chunks) : Len(ret.chunks[i]) <= arg.limit
        /\ Rebuilds(arg.text, ret.chunks)
        /\ Len(arg.text) <= arg.limit => ret.chunks = <<arg.text>>

\* C36: for every text and every limit >= 1 chunk_message terminates, its
\* chunks are at most limit characters long each and give the text back when
\* put together, but for newlines left out where it was split; a text within
\* the limit is returned as one chunk, unchanged.
C36_ChunkMessageSplits ==
    []ChunkMessageResult /\ <>ChunkMessageReturned

\* C36 witness: a text was split at a newline and, where the limit came
\* first, in the middle of a line, into three chunks or more.
C36_Witness ==
    /\ ChunkMessageReturned
    /\ Len(ret.chunks) >= 3
    /\ Len(Flatten(ret.chunks)) < Len(arg.text)
    /\ \E i \in 1..Len(ret.chunks) : Len(ret.chunks[i]) = arg.limit

\* C36 witness of the split at a leading newline, which gives an empty chunk
C36_WitnessEmptyChunk ==
    /\ ChunkMessageReturned
    /\ \E i \in 1..Len(ret.chunks) : ret.chunks[i] = <<>>
    /\ Len(arg.text) > arg.limit

\* C22: build returns no work unit for an empty file list, and with a batch
\* count of 0 it raises for every file list, the empty one included.
C22_ZeroBatchesRejected ==
    ret # None =>
        /\ (arg.files = <<>> /\ arg.n > 0) => (~ret.raised /\ ret.batches = <<>>)
        /\ arg.n = 0 => ret.raised

\* the part of C22 on the empty file list and the positive batch counts
C22_EmptyListNoUnits ==
    (ret # None /\ arg.files = <<>> /\ arg.n > 0) => (~ret.raised /\ ret.batches = <<>>)

\* C19: the fingerprints of two observations are identical when the file was
\* not modified in between, and differ when its content or its mtime at the
\* second observation is not what it was at the first.
C19_FingerprintTracksContent ==
    ret # None =>
        /\ ~arg.modified => ret.first = ret.second
        /\ (arg.before.content # arg.now.content \/ arg.before.mtime # arg.now.mtime)
              => ret.first # ret.second

\* the part of C19 on mtime and size: the fingerprints of two observations are
\* identical when the file was not modified in between, and they differ exactly
\* when the mtime or the size of the file differs between the observations.
C19_FingerprintTracksStat ==
    ret # None =>
        /\ ~arg.modified => ret.first = ret.second
        /\ (ret.first # ret.second) <=>
              (\/ arg.before.mtime # arg.now.mtime
               \/ Len(arg.before.content) # Len(arg.now.content))

\* the work unit without its unreadable items
Readable(work, bad) ==
    IF work.type = "files"
    THEN FilesUnit(SelectSeq(work.paths, LAMBDA x : x \notin bad))
    ELSE ZipUnit(work.zip_path, SelectSeq(work.entries, LAMBDA e : e \notin bad))

\* C17: parse of a work unit with unreadable loose files or archive entries
\* does not raise and returns the documents of the items that can be read.
C17_FailingItemSkipped ==
    ret # None =>
        /\ ~ret.raised
        /\ ret.docs = Parse(arg.d, Readable(arg.work, arg.bad))

\* the part of C17 on archive entries
C17_FailingEntrySkipped ==
    (ret # None /\ arg.work.type = "zip_entries") =>
        /\ ~ret.raised
        /\ ret.docs = Parse(arg.d, Readable(arg.work, arg.bad))

\* C12: embed() returns one tuple per splitter node, in node order: tuple i
\* has the id, the text and the metadata of node i and the vector the sidecar
\* returned for the text of node i, whatever the number of nodes is relative to
\* the number of texts per request.
C12_OneTuplePerNode ==
    ret # None =>
        /\ Len(ret.chunks) = Len(arg.nodes)
        /\ \A i \in 1..Len(ret.chunks) :
              /\ ret.chunks[i].id = NodeId(1, arg.worker_id, i)
              /\ ret.chunks[i].vector = TeiEmbed(<<arg.nodes[i].text>>)[1]
              /\ ret.chunks[i].text = arg.nodes[i].text
              /\ ret.chunks[i].source = arg.nodes[i].source
              /\ ret.chunks[i].fingerprint = arg.nodes[i].fingerprint
              /\ ret.chunks[i].filename = arg.nodes[i].filename
        /\ \A i \in 1..Len(ret.chunks) : \A j \in 1..Len(ret.chunks) :
              i # j => ret.chunks[i].id # ret.chunks[j].id

\* C12 witness: an embed of more nodes than two full requests hold, the last
\* request not full, with texts that differ from request to request.
C12_Witness ==
    /\ ret # None
    /\ Len(arg.nodes) > 2 * BATCH_SIZE
    /\ Len(arg.nodes) % BATCH_SIZE # 0
    /\ Len(ret.chunks) = Len(arg.nodes)
    /\ arg.nodes[1].text # arg.nodes[Len(arg.nodes)].text


\* the regular files of the scanned directory whose fingerprint is not the
\* entry of the indexed-files map for their name
ChangedFiles ==
    {name \in DOMAIN arg.dir :
        /\ arg.dir[name].kind = "file"
        /\ \/ name \notin DOMAIN arg.indexed
           \/ arg.indexed[name] # <<arg.dir[name].mtime, arg.dir[name].size>>}

\* C3: scan() returns exactly the regular files of the docs directory whose
\* fingerprint differs from the indexed-files map entry of their name (no entry
\* counts as different), each once, in lexicographic order of the names.
C3_ScanExact ==
    ret # None =>
        /\ Range(ret.files) = ChangedFiles
        /\ \A i \in 1..Len(ret.files) : \A j \in 1..Len(ret.files) :
              i < j => Rank(ret.files[i]) < Rank(ret.files[j])

\* C3 witness: a scan that returns a new file and a changed file, in order,
\* and leaves out an unchanged file and a subdirectory of the same directory.
C3_Witness ==
    /\ ret # None
    /\ Len(ret.files) = 2
    /\ \E n \in Range(ret.files) : n \notin DOMAIN arg.indexed
    /\ \E n \in Range(ret.files) : n \in DOMAIN arg.indexed
    /\ \E n \in DOMAIN arg.dir : n \notin Range(ret.files)

\* the paths and the (archive, entry) pairs of a work unit, in order
UnitItems(b) ==
    IF b.type = "files"
    THEN [j \in 1..Len(b.paths) |-> <<"path", b.paths[j], None>>]
    ELSE [j \in 1..Len(b.entries) |-> <<"entry", b.zip_path, b.entries[j]>>]

BatchItems(batches) == Flatten([i \in 1..Len(batches) |-> UnitItems(batches[i])])

\* what build has to cover: the loose paths of the list and the entries, other
\* than directories, of its archives
ExpectedItems ==
    {<<"path", f, None>> : f \in {x \in Range(arg.files) : x[Len(x)] # ".zip"}}
    \cup UNION {{<<"entry", z, e>> :
                    e \in {x \in Range(arg.lists[z]) : x[Len(x)] # "/"}} :
                z \in {x \in Range(arg.files) : x[Len(x)] = ".zip"}}

\* C8: the work units of build hold every loose path and every entry of every
\* archive exactly once, each entry under its own archive, and nothing else.
C8_BuildCoversOnce ==
    ret # None =>
        /\ Range(BatchItems(ret.batches)) = ExpectedItems
        /\ Len(BatchItems(ret.batches)) = Cardinality(ExpectedItems)

\* C8 witness: a build of two loose files and two archives in which an archive
\* with a directory entry is split over a work unit of two entries and another.
C8_Witness ==
    /\ ret # None
    /\ Len(arg.files) = 4
    /\ \E i \in 1..Len(ret.batches) : \E j \in 1..Len(ret.batches) :
          /\ i # j
          /\ ret.batches[i].type = "zip_entries"
          /\ ret.batches[j].type = "zip_entries"
          /\ ret.batches[i].zip_path = ret.batches[j].zip_path
          /\ Len(arg.lists[ret.batches[i].zip_path]) = Len(EntryNames)
          /\ Len(ret.batches[i].entries) = 2
    /\ \E i \in 1..Len(ret.batches) : ret.batches[i].type = "files"

\* C9: for N > 0 items and W >= 1, _chunk returns at most W groups, each of
\* ceil(N / W) items but a last one that may be shorter and is not empty, and
\* the groups in order make up the input; 100 items and W = 8 give seven
\* groups of 13 and one of 9.
C9_ChunkCeiling ==
    ret # None =>
        LET groups == ret.groups
            len == Len(arg.items)
            w == arg.n
            size == CHOOSE c \in 1..len : c * w >= len /\ (c - 1) * w < len
        IN  /\ Len(groups) >= 1
            /\ Len(groups) <= w
            /\ \A g \in 1..(Len(groups) - 1) : Len(groups[g]) = size
            /\ Len(groups[Len(groups)]) \in 1..size
            /\ Flatten(groups) = arg.items
            /\ (len = 100 /\ w = 8) =>
                  [g \in 1..Len(groups) |-> Len(groups[g])]
                      = <<13, 13, 13, 13, 13, 13, 13, 9>>

\* C9 witness: the 100 items split for W = 8.
C9_Witness ==
    /\ ret # None
    /\ Len(arg.items) = 100
    /\ arg.n = 8
    /\ Len(ret.groups) = 8

====
